---- MODULE Spec2Model ----
(***************************************************************************)
(* Formation & group-movement coordination of Navmesh (Navmesh.cpp):       *)
(* the formation registry (std::map<int, Formation> formations and         *)
(* next_formation_id), membership, leadership, targets, and the crowd      *)
(* life cycle (is_init / is_build / is_crowd_init / crowd) the formation   *)
(* operations depend on.                                                   *)
(*                                                                         *)
(* float values are held in fixed point, in units of 1/Scale.              *)
(***************************************************************************)
EXTENDS Integers, Sequences, FiniteSets, TLC

VARIABLES
    formations,         \* std::map<int, Formation>: live id -> Formation
    next_formation_id,  \* int next_formation_id
    is_init,            \* geometry loaded
    is_build,           \* navmesh built
    is_crowd_init,      \* set by the first successful init_crowd
    crowd,              \* dtCrowd* : NULL or [maxAgents, active]
    crashed,            \* the process dereferenced a null crowd / sample
    last,               \* the call made by the latest step, its result and log level
    calls,              \* crowd mutations issued by the latest call, in order
    created,            \* ids returned by successful create_formation calls, in order
    deleted,            \* number of delete_formation calls that succeeded
    pre,                \* the value of formations when the latest call was made
    prev_update,        \* dt and requests of the update_formations call right before
                        \* the latest call, when both are update_formations calls
    tick,               \* where an update_formations call that has not returned stands
    serial              \* the caller mutates the registry between update calls only

vars == <<formations, next_formation_id, is_init, is_build, is_crowd_init,
          crowd, crashed, last, calls, created, deleted, pre, prev_update,
          tick, serial>>

registry == <<formations, next_formation_id>>
lifecycle == <<is_init, is_build, is_crowd_init>>

-----------------------------------------------------------------------------
(* Bounds of the model *)

\* init_crowd is explored with a capacity (maxAgents) up to this
MaxCrowdAgents == 1

\* the registry specification explores create_formation while next_formation_id is below this
MaxRegistryId == 3
\* the slot-order specification starts with a crowd of this capacity
MaxSlotAgents == 3
\* and explores create_formation while next_formation_id is below this
MaxSlotFormations == 1
\* members of the formation of SpecLayout, and capacity of its crowd
MaxLayoutAgents == 6
\* agents of the crowd of SpecTicks
MaxTickAgents == 2

(* Fixed-point resolution of a float *)
Scale == 1000

\* the null dtCrowd pointer
NULL == [null |-> TRUE]

\* inputs of the calls
FormationTypes == {0}
Spacings == {2 * Scale}
\* the ids create_formation returns under Spec; each is unknown before it is
\* created and after it is deleted (SpecRegistry explores more ids)
FormationIds == {0, 1}
\* agent slots of the largest crowd
AgentSlots == 0 .. (MaxCrowdAgents - 1)
\* -1 is negative, MaxCrowdAgents is beyond the capacity of every crowd
AgentIdxs == -1 .. MaxCrowdAgents
CrowdCapacities == {1, MaxCrowdAgents}
InitOutcomes == {"ok", "alloc_fail", "init_fail"}
LoadOutcomes == {TRUE}
BuildOutcomes == {TRUE}
\* <<target_pos, target_dir>>: a degenerate heading, another position with a
\* heading of length 2, and a position with fewer than 3 components
TargetInputs ==
    {<<<<50 * Scale, 0, 50 * Scale>>, <<0, 0, 0>>>>,
     <<<<10 * Scale, Scale, 0>>, <<2 * Scale, 0, 0>>>>,
     <<<<Scale, 2 * Scale>>, <<0, 0, Scale>>>>}
\* the dt of update_formations, in seconds
DtValues == {16, 33}

-----------------------------------------------------------------------------
(* Sequence helpers: std::find, vector::erase *)

\* std::find(v.begin(), v.end(), x) != v.end()
Contains(v, x) == \E k \in 1 .. Len(v) : v[k] = x

\* position of the first occurrence of x in v (std::find), 0 when absent
FindFirst(v, x) ==
    IF Contains(v, x)
    THEN CHOOSE k \in 1 .. Len(v) : v[k] = x /\ \A j \in 1 .. (k - 1) : v[j] # x
    ELSE 0

\* swap-with-last and pop_back in place of erase(it)
EraseAt_swap(v, k) ==
    [j \in 1 .. (Len(v) - 1) |-> IF j = k THEN v[Len(v)] ELSE v[j]]

\* vector::erase(it): drop position k, later elements shift down
EraseAt(v, k) == [j \in 1 .. (Len(v) - 1) |-> IF j < k THEN v[j] ELSE v[j + 1]]

\* vector::push_back
PushBack(v, x) == Append(v, x)

RECURSIVE SqrtSearch(_, _, _)
SqrtSearch(n, lo, hi) ==
    IF lo >= hi THEN lo
    ELSE LET mid == (lo + hi + 1) \div 2
         IN IF mid * mid <= n THEN SqrtSearch(n, mid, hi)
                              ELSE SqrtSearch(n, lo, mid - 1)

\* sqrtf of a non-negative value, rounded down (roots searched below 2^15.5)
ISqrt(n) == SqrtSearch(n, 0, IF n < 46340 THEN n ELSE 46340)

-----------------------------------------------------------------------------
(* dtCrowd as used through the crowd pointer *)

\* dtCrowd::getAgentCount: the capacity given to init, not the number of active agents
getAgentCount(c) == c.maxAgents

\* dtCrowd::getAgent(idx) && ag->active
agent_active(c, idx) == idx \in c.active

\* dtCrowd::addAgent: first free slot, -1 when the crowd is full
addAgentIdx(c) ==
    IF c.active = 0 .. (c.maxAgents - 1) THEN -1
    ELSE CHOOSE i \in 0 .. (c.maxAgents - 1) :
            i \notin c.active /\ \A j \in 0 .. (i - 1) : j \in c.active

\* dtCrowd::removeAgent(idx): deactivates the slot when idx is in range
removeAgentFrom(c, idx) == [c EXCEPT !.active = @ \ {idx}]

-----------------------------------------------------------------------------
(* Formation records *)

\* create_formation, lines 1622-1631: the fields of a new Formation
NewFormation(id, formation_type, spacing) ==
    [id            |-> id,
     type          |-> formation_type,
     spacing       |-> spacing,
     leader_idx    |-> -1,
     agent_indices |-> <<>>,
     target_pos    |-> <<0, 0, 0>>,
     target_dir    |-> <<0, 0, Scale>>,
     has_target    |-> FALSE]

\* formations[id] = f
MapPut(m, id, f) == [i \in (DOMAIN m) \cup {id} |-> IF i = id THEN f ELSE m[i]]

\* formations.erase(id)
MapErase(m, id) == [i \in (DOMAIN m) \ {id} |-> m[i]]

\* formations.find(id) != formations.end()
Found(id) == id \in DOMAIN formations

\* a bool result as the integer it converts to
BoolRet(b) == IF b THEN 1 ELSE 0

\* the record of a call: its name, integer arguments, vector arguments,
\* result (0 for void) and the level of the ctx.log line it wrote
CallV(op, args, vecs, ret, log) ==
    [op |-> op, args |-> args, vecs |-> vecs, ret |-> ret, log |-> log]
Call(op, args, ret, log) == CallV(op, args, <<>>, ret, log)

\* prev_update when the call before the latest one was not update_formations
NoUpdate == [dt |-> -1, calls |-> <<>>]

\* no update_formations call is under way: pos is "idle", "formation" (the
\* iterator stands on formation id) or "slot" (the member loop stands on i,
\* with num_agents and right as computed on entering the formation); torn
\* names the invalid read the latest update_formations call has made
Idle == [pos |-> "idle", id |-> -1, i |-> 0, num_agents |-> 0, right |-> <<0, 0, 0>>,
         torn |-> "NONE"]

-----------------------------------------------------------------------------
Init ==
    /\ formations = << >>
    /\ next_formation_id = 0
    /\ is_init = FALSE
    /\ is_build = FALSE
    /\ is_crowd_init = FALSE
    /\ crowd = NULL
    /\ crashed = FALSE
    /\ last = Call("Navmesh", <<>>, 0, "NONE")
    /\ calls = <<>>
    /\ created = <<>>
    /\ deleted = 0
    /\ pre = << >>
    /\ prev_update = NoUpdate
    /\ tick = Idle
    /\ serial = TRUE

-----------------------------------------------------------------------------
(* Geometry, navmesh and crowd life cycle *)

\* init_by_obj whose clear() also empties the registry
init_by_obj_resetting(loaded) ==
    /\ ~crashed
    /\ pre' = formations
    /\ UNCHANGED <<tick, serial>>
    /\ prev_update' = NoUpdate
    /\ LET cleared == is_init \/ ~loaded
       IN /\ is_init' = loaded
          /\ is_build' = IF cleared THEN FALSE ELSE is_build
          /\ is_crowd_init' = IF cleared THEN FALSE ELSE is_crowd_init
          /\ crowd' = IF cleared THEN NULL ELSE crowd
          /\ formations' = IF cleared THEN << >> ELSE formations
          /\ calls' = IF cleared /\ crowd # NULL THEN <<<<"dtFreeCrowd">>>> ELSE <<>>
    /\ last' = Call("init_by_obj", <<BoolRet(loaded)>>, 0, IF loaded THEN "NONE" ELSE "ERROR")
    /\ UNCHANGED <<next_formation_id, crashed, created, deleted>>

\* Navmesh::clear, the part that touches the modelled state
\* init_by_obj / init_by_raw: clear() when already initialised, then load
init_by_obj(loaded) ==
    /\ ~crashed
    /\ pre' = formations
    /\ UNCHANGED <<tick, serial>>
    /\ prev_update' = NoUpdate
    /\ LET cleared == is_init \/ ~loaded
       IN /\ is_init' = loaded
          /\ is_build' = IF cleared THEN FALSE ELSE is_build
          /\ is_crowd_init' = IF cleared THEN FALSE ELSE is_crowd_init
          /\ crowd' = IF cleared THEN NULL ELSE crowd
          /\ calls' = IF cleared /\ crowd # NULL THEN <<<<"dtFreeCrowd">>>> ELSE <<>>
    /\ last' = Call("init_by_obj", <<BoolRet(loaded)>>, 0, IF loaded THEN "NONE" ELSE "ERROR")
    /\ UNCHANGED <<registry, crashed, created, deleted>>

\* build_navmesh: sample->handleBuild() succeeds or fails; sample is null before init
build_navmesh(built) ==
    /\ ~crashed
    /\ pre' = formations
    /\ UNCHANGED <<tick, serial>>
    /\ prev_update' = NoUpdate
    /\ IF ~is_init
       THEN /\ crashed' = TRUE
            /\ last' = Call("build_navmesh", <<>>, 0, "NONE")
            /\ UNCHANGED is_build
       ELSE /\ is_build' = built
            /\ last' = Call("build_navmesh", <<>>, 0, IF built THEN "NONE" ELSE "ERROR")
            /\ UNCHANGED crashed
    /\ calls' = <<>>
    /\ UNCHANGED <<registry, is_init, is_crowd_init, crowd, created, deleted>>

\* init_crowd(maxAgents, maxAgentRadius); outcome is what the allocator,
\* sample->getNavMesh() and dtCrowd::init answer
init_crowd(maxAgents, outcome) ==
    /\ ~crashed
    /\ pre' = formations
    /\ UNCHANGED <<tick, serial>>
    /\ prev_update' = NoUpdate
    /\ IF ~is_build
       THEN /\ last' = Call("init_crowd", <<maxAgents>>, 0, "ERROR")
            /\ calls' = <<>>
            /\ UNCHANGED <<crowd, is_crowd_init>>
       ELSE LET freed == IF crowd # NULL THEN <<<<"dtFreeCrowd">>>> ELSE <<>>
            IN CASE outcome = "alloc_fail" ->
                      /\ crowd' = NULL
                      /\ calls' = freed
                      /\ last' = Call("init_crowd", <<maxAgents>>, 0, "ERROR")
                      /\ UNCHANGED is_crowd_init
                 [] outcome \in {"no_navmesh", "init_fail"} ->
                      /\ crowd' = NULL
                      /\ calls' = freed \o <<<<"dtFreeCrowd">>>>
                      /\ last' = Call("init_crowd", <<maxAgents>>, 0, "ERROR")
                      /\ UNCHANGED is_crowd_init
                 [] outcome = "ok" ->
                      /\ crowd' = [maxAgents |-> maxAgents, active |-> {}]
                      /\ calls' = freed \o <<<<"init">>>>
                      /\ is_crowd_init' = TRUE
                      /\ last' = Call("init_crowd", <<maxAgents>>, 1, "NONE")
    /\ UNCHANGED <<registry, is_init, is_build, crashed, created, deleted>>

\* add_agent(pos, params): crowd->addAgent
add_agent ==
    /\ ~crashed
    /\ pre' = formations
    /\ UNCHANGED <<tick, serial>>
    /\ prev_update' = NoUpdate
    /\ IF ~is_crowd_init
       THEN /\ last' = Call("add_agent", <<>>, -1, "ERROR")
            /\ calls' = <<>>
            /\ UNCHANGED <<crowd, crashed>>
       ELSE IF crowd = NULL
       THEN /\ crashed' = TRUE
            /\ last' = Call("add_agent", <<>>, 0, "NONE")
            /\ calls' = <<>>
            /\ UNCHANGED crowd
       ELSE LET idx == addAgentIdx(crowd)
            IN /\ crowd' = IF idx = -1 THEN crowd
                           ELSE [crowd EXCEPT !.active = @ \cup {idx}]
               /\ calls' = <<<<"addAgent", idx>>>>
               /\ last' = Call("add_agent", <<>>, idx, IF idx = -1 THEN "ERROR" ELSE "NONE")
               /\ UNCHANGED crashed
    /\ UNCHANGED <<registry, lifecycle, created, deleted>>

\* remove_agent taking idx out of every formation too
remove_agent_purging(idx) ==
    /\ ~crashed
    /\ pre' = formations
    /\ UNCHANGED <<tick, serial>>
    /\ prev_update' = NoUpdate
    /\ IF ~is_crowd_init
       THEN /\ last' = Call("remove_agent", <<idx>>, 0, "ERROR")
            /\ calls' = <<>>
            /\ UNCHANGED <<crowd, crashed, formations>>
       ELSE IF crowd = NULL
       THEN /\ crashed' = TRUE
            /\ last' = Call("remove_agent", <<idx>>, 0, "NONE")
            /\ calls' = <<>>
            /\ UNCHANGED <<crowd, formations>>
       ELSE /\ crowd' = removeAgentFrom(crowd, idx)
            /\ calls' = <<<<"removeAgent", idx>>>>
            /\ last' = Call("remove_agent", <<idx>>, 0, "NONE")
            /\ formations' =
                  [i \in DOMAIN formations |->
                      LET Kept(a) == a # idx
                      IN [formations[i] EXCEPT
                            !.agent_indices = SelectSeq(@, Kept),
                            !.leader_idx = IF @ = idx THEN -1 ELSE @]]
            /\ UNCHANGED crashed
    /\ UNCHANGED <<next_formation_id, lifecycle, created, deleted>>

\* remove_agent(idx): crowd->removeAgent(idx); the formations are not told
remove_agent(idx) ==
    /\ ~crashed
    /\ pre' = formations
    /\ UNCHANGED <<tick, serial>>
    /\ prev_update' = NoUpdate
    /\ IF ~is_crowd_init
       THEN /\ last' = Call("remove_agent", <<idx>>, 0, "ERROR")
            /\ calls' = <<>>
            /\ UNCHANGED <<crowd, crashed>>
       ELSE IF crowd = NULL
       THEN /\ crashed' = TRUE
            /\ last' = Call("remove_agent", <<idx>>, 0, "NONE")
            /\ calls' = <<>>
            /\ UNCHANGED crowd
       ELSE /\ crowd' = removeAgentFrom(crowd, idx)
            /\ calls' = <<<<"removeAgent", idx>>>>
            /\ last' = Call("remove_agent", <<idx>>, 0, "NONE")
            /\ UNCHANGED crashed
    /\ UNCHANGED <<registry, lifecycle, created, deleted>>

-----------------------------------------------------------------------------
(* Formation registry *)

\* the counter read without the post-increment
NextId_same(n) == n

\* formation.id = next_formation_id++ : the value left in the counter
NextId(n) == n + 1

\* create_formation(formation_type, spacing)
create_formation(formation_type, spacing) ==
    /\ ~crashed
    /\ pre' = formations
    /\ UNCHANGED <<tick, serial>>
    /\ prev_update' = NoUpdate
    /\ IF ~is_crowd_init
       THEN /\ last' = Call("create_formation", <<formation_type, spacing>>, -1, "ERROR")
            /\ UNCHANGED <<registry, created, deleted>>
       ELSE LET id == next_formation_id
            IN /\ next_formation_id' = NextId(next_formation_id)
               /\ formations' = MapPut(formations, id, NewFormation(id, formation_type, spacing))
               /\ created' = Append(created, id)
               /\ UNCHANGED deleted
               /\ last' = Call("create_formation", <<formation_type, spacing>>, id, "PROGRESS")
    /\ calls' = <<>>
    /\ UNCHANGED <<lifecycle, crowd, crashed>>

\* delete_formation without the find() guard: formations[formation_id]
\* default-inserts the unknown id and erase() removes it again
delete_formation_unchecked(formation_id) ==
    /\ ~crashed
    /\ pre' = formations
    /\ UNCHANGED <<tick, serial>>
    /\ prev_update' = NoUpdate
    /\ formations' = MapErase(formations, formation_id)
    /\ deleted' = deleted + 1
    /\ last' = Call("delete_formation", <<formation_id>>, 0, "PROGRESS")
    /\ calls' = <<>>
    /\ UNCHANGED <<next_formation_id, lifecycle, crowd, crashed, created>>

\* delete_formation whose loop over agent_indices removes each agent from the crowd
delete_formation_removing(formation_id) ==
    /\ ~crashed
    /\ pre' = formations
    /\ UNCHANGED <<tick, serial>>
    /\ prev_update' = NoUpdate
    /\ IF ~Found(formation_id)
       THEN /\ last' = Call("delete_formation", <<formation_id>>, 0, "ERROR")
            /\ calls' = <<>>
            /\ UNCHANGED <<formations, crowd, deleted>>
       ELSE LET m == formations[formation_id].agent_indices
            IN /\ formations' = MapErase(formations, formation_id)
               /\ deleted' = deleted + 1
               /\ calls' = [k \in 1 .. Len(m) |-> <<"removeAgent", m[k]>>]
               /\ crowd' = IF crowd = NULL THEN crowd
                           ELSE [crowd EXCEPT !.active = @ \ {m[k] : k \in 1 .. Len(m)}]
               /\ last' = Call("delete_formation", <<formation_id>>, 0, "PROGRESS")
    /\ UNCHANGED <<next_formation_id, lifecycle, crashed, created>>

\* delete_formation(formation_id)
delete_formation(formation_id) ==
    /\ ~crashed
    /\ pre' = formations
    /\ UNCHANGED <<tick, serial>>
    /\ prev_update' = NoUpdate
    /\ IF ~Found(formation_id)
       THEN /\ last' = Call("delete_formation", <<formation_id>>, 0, "ERROR")
            /\ UNCHANGED <<formations, deleted>>
       ELSE \* the loop over agent_indices has an empty body
            /\ formations' = MapErase(formations, formation_id)
            /\ deleted' = deleted + 1
            /\ last' = Call("delete_formation", <<formation_id>>, 0, "PROGRESS")
    /\ calls' = <<>>
    /\ UNCHANGED <<next_formation_id, lifecycle, crowd, crashed, created>>

-----------------------------------------------------------------------------
(* Membership *)

\* agent_idx < 0 || agent_idx >= crowd->getAgentCount()
InvalidIndex(c, agent_idx) == agent_idx < 0 \/ agent_idx >= getAgentCount(c)

\* the already-a-member test looking into every formation
AlreadyIn_anywhere(f, agent_idx) ==
    \E i \in DOMAIN formations : Contains(formations[i].agent_indices, agent_idx)

\* add_agent_to_formation without the already-a-member test
AlreadyIn_never(f, agent_idx) == FALSE

\* std::find(agent_indices...) != end(): the agent is already in this formation
AlreadyIn(f, agent_idx) == Contains(f.agent_indices, agent_idx)

\* add_agent_to_formation(formation_id, agent_idx)
add_agent_to_formation(formation_id, agent_idx) ==
    /\ ~crashed
    /\ pre' = formations
    /\ UNCHANGED <<tick, serial>>
    /\ prev_update' = NoUpdate
    /\ LET args == <<formation_id, agent_idx>>
       IN IF ~is_crowd_init
          THEN /\ last' = Call("add_agent_to_formation", args, 0, "ERROR")
               /\ UNCHANGED <<formations, crashed>>
          ELSE IF ~Found(formation_id)
          THEN /\ last' = Call("add_agent_to_formation", args, 0, "ERROR")
               /\ UNCHANGED <<formations, crashed>>
          ELSE IF crowd = NULL
          THEN \* crowd->getAgentCount() through a null pointer
               /\ crashed' = TRUE
               /\ last' = Call("add_agent_to_formation", args, 0, "NONE")
               /\ UNCHANGED formations
          ELSE IF InvalidIndex(crowd, agent_idx)
          THEN /\ last' = Call("add_agent_to_formation", args, 0, "ERROR")
               /\ UNCHANGED <<formations, crashed>>
          ELSE IF AlreadyIn(formations[formation_id], agent_idx)
          THEN /\ last' = Call("add_agent_to_formation", args, 1, "WARNING")
               /\ UNCHANGED <<formations, crashed>>
          ELSE /\ formations' = [formations EXCEPT ![formation_id].agent_indices =
                                    PushBack(@, agent_idx)]
               /\ last' = Call("add_agent_to_formation", args, 1, "PROGRESS")
               /\ UNCHANGED crashed
    /\ calls' = <<>>
    /\ UNCHANGED <<next_formation_id, lifecycle, crowd, created, deleted>>

\* the loop without the it != end() test: erase is applied to every formation
\* that has members
Holders_nonempty(agent_idx) ==
    {i \in DOMAIN formations : formations[i].agent_indices # <<>>}

\* the formations holding agent_idx; the loop over the std::map visits them
\* in ascending id order and stops at the first
Holders(agent_idx) ==
    {i \in DOMAIN formations : Contains(formations[i].agent_indices, agent_idx)}

\* the loop stopping at the holder of the largest id
FirstHolder_largest(agent_idx) ==
    CHOOSE i \in Holders(agent_idx) : \A j \in Holders(agent_idx) : i >= j

FirstHolder(agent_idx) ==
    CHOOSE i \in Holders(agent_idx) : \A j \in Holders(agent_idx) : i <= j

\* remove that leaves leader_idx as it was
LeaderAfterRemove_kept(f, agent_idx) == f.leader_idx

\* lines 1713-1716: the leader is cleared when it is the removed agent
LeaderAfterRemove(f, agent_idx) ==
    IF f.leader_idx = agent_idx THEN -1 ELSE f.leader_idx

\* lines 1707-1716 applied to one formation
RemoveFrom(f, agent_idx) ==
    [f EXCEPT !.agent_indices = EraseAt(@, FindFirst(@, agent_idx)),
              !.leader_idx = LeaderAfterRemove(f, agent_idx)]

\* remove_agent_from_formation without the is_crowd_init test
remove_agent_from_formation_anytime(agent_idx) ==
    /\ ~crashed
    /\ pre' = formations
    /\ UNCHANGED <<tick, serial>>
    /\ prev_update' = NoUpdate
    /\ IF Holders(agent_idx) = {}
       THEN /\ last' = Call("remove_agent_from_formation", <<agent_idx>>, 0, "WARNING")
            /\ UNCHANGED formations
       ELSE LET id == FirstHolder(agent_idx)
            IN /\ formations' = [formations EXCEPT ![id] = RemoveFrom(@, agent_idx)]
               /\ last' = Call("remove_agent_from_formation", <<agent_idx>>, 1, "PROGRESS")
    /\ calls' = <<>>
    /\ UNCHANGED <<next_formation_id, lifecycle, crowd, crashed, created, deleted>>

\* remove_agent_from_formation(agent_idx)
remove_agent_from_formation(agent_idx) ==
    /\ ~crashed
    /\ pre' = formations
    /\ UNCHANGED <<tick, serial>>
    /\ prev_update' = NoUpdate
    /\ IF ~is_crowd_init
       THEN /\ last' = Call("remove_agent_from_formation", <<agent_idx>>, 0, "ERROR")
            /\ UNCHANGED formations
       ELSE IF Holders(agent_idx) = {}
       THEN /\ last' = Call("remove_agent_from_formation", <<agent_idx>>, 0, "WARNING")
            /\ UNCHANGED formations
       ELSE LET id == FirstHolder(agent_idx)
            IN /\ formations' = [formations EXCEPT ![id] = RemoveFrom(@, agent_idx)]
               /\ last' = Call("remove_agent_from_formation", <<agent_idx>>, 1, "PROGRESS")
    /\ calls' = <<>>
    /\ UNCHANGED <<next_formation_id, lifecycle, crowd, crashed, created, deleted>>

\* set_formation_leader accepting a member of any formation
set_formation_leader_anywhere(formation_id, agent_idx) ==
    /\ ~crashed
    /\ pre' = formations
    /\ UNCHANGED <<tick, serial>>
    /\ prev_update' = NoUpdate
    /\ LET args == <<formation_id, agent_idx>>
       IN IF ~Found(formation_id)
          THEN /\ last' = Call("set_formation_leader", args, 0, "ERROR")
               /\ UNCHANGED formations
          ELSE IF Holders(agent_idx) = {}
          THEN /\ last' = Call("set_formation_leader", args, 0, "ERROR")
               /\ UNCHANGED formations
          ELSE /\ formations' = [formations EXCEPT ![formation_id].leader_idx = agent_idx]
               /\ last' = Call("set_formation_leader", args, 0, "PROGRESS")
    /\ calls' = <<>>
    /\ UNCHANGED <<next_formation_id, lifecycle, crowd, crashed, created, deleted>>

\* set_formation_leader(formation_id, agent_idx)
set_formation_leader(formation_id, agent_idx) ==
    /\ ~crashed
    /\ pre' = formations
    /\ UNCHANGED <<tick, serial>>
    /\ prev_update' = NoUpdate
    /\ LET args == <<formation_id, agent_idx>>
       IN IF ~Found(formation_id)
          THEN /\ last' = Call("set_formation_leader", args, 0, "ERROR")
               /\ UNCHANGED formations
          ELSE IF ~Contains(formations[formation_id].agent_indices, agent_idx)
          THEN /\ last' = Call("set_formation_leader", args, 0, "ERROR")
               /\ UNCHANGED formations
          ELSE /\ formations' = [formations EXCEPT ![formation_id].leader_idx = agent_idx]
               /\ last' = Call("set_formation_leader", args, 0, "PROGRESS")
    /\ calls' = <<>>
    /\ UNCHANGED <<next_formation_id, lifecycle, crowd, crashed, created, deleted>>

-----------------------------------------------------------------------------
(* Target pose *)

\* a / b rounded toward zero, as a float quotient is stored in fixed point
FDiv(a, b) == IF a >= 0 THEN a \div b ELSE -((-a) \div b)

\* sqrtf(x*x + y*y + z*z) of a fixed-point vector
VecLen(v) == ISqrt(v[1] * v[1] + v[2] * v[2] + v[3] * v[3])

\* the threshold 0.001f in fixed point
MinLen == Scale \div 1000

\* the stored direction without the default for a direction without length
NormalizeDir_keeping(d) ==
    LET len == VecLen(d)
    IN IF len > MinLen
       THEN <<FDiv(d[1] * Scale, len), FDiv(d[2] * Scale, len), FDiv(d[3] * Scale, len)>>
       ELSE d

\* lines 1753-1766: the stored direction
NormalizeDir(d) ==
    LET len == VecLen(d)
    IN IF len > MinLen
       THEN <<FDiv(d[1] * Scale, len), FDiv(d[2] * Scale, len), FDiv(d[3] * Scale, len)>>
       ELSE <<0, 0, Scale>>

\* set_formation_target setting has_target before it tests the vectors
set_formation_target_early(formation_id, target_pos, target_dir) ==
    /\ ~crashed
    /\ pre' = formations
    /\ UNCHANGED <<tick, serial>>
    /\ prev_update' = NoUpdate
    /\ LET args == <<formation_id>>
           vecs == <<target_pos, target_dir>>
       IN IF ~Found(formation_id)
          THEN /\ last' = CallV("set_formation_target", args, vecs, 0, "ERROR")
               /\ UNCHANGED formations
          ELSE IF Len(target_pos) < 3 \/ Len(target_dir) < 3
          THEN /\ last' = CallV("set_formation_target", args, vecs, 0, "ERROR")
               /\ formations' = [formations EXCEPT ![formation_id].has_target = TRUE]
          ELSE /\ formations' = [formations EXCEPT
                     ![formation_id].has_target = TRUE,
                     ![formation_id].target_pos = SubSeq(target_pos, 1, 3),
                     ![formation_id].target_dir = NormalizeDir(target_dir)]
               /\ last' = CallV("set_formation_target", args, vecs, 0, "PROGRESS")
    /\ calls' = <<>>
    /\ UNCHANGED <<next_formation_id, lifecycle, crowd, crashed, created, deleted>>

\* set_formation_target that keeps the pose of a formation that has one
set_formation_target_once(formation_id, target_pos, target_dir) ==
    /\ ~crashed
    /\ pre' = formations
    /\ UNCHANGED <<tick, serial>>
    /\ prev_update' = NoUpdate
    /\ LET args == <<formation_id>>
           vecs == <<target_pos, target_dir>>
       IN IF ~Found(formation_id) \/ Len(target_pos) < 3 \/ Len(target_dir) < 3
          THEN /\ last' = CallV("set_formation_target", args, vecs, 0, "ERROR")
               /\ UNCHANGED formations
          ELSE /\ formations' =
                     IF formations[formation_id].has_target THEN formations
                     ELSE [formations EXCEPT
                             ![formation_id].has_target = TRUE,
                             ![formation_id].target_pos = SubSeq(target_pos, 1, 3),
                             ![formation_id].target_dir = NormalizeDir(target_dir)]
               /\ last' = CallV("set_formation_target", args, vecs, 0, "PROGRESS")
    /\ calls' = <<>>
    /\ UNCHANGED <<next_formation_id, lifecycle, crowd, crashed, created, deleted>>

\* set_formation_target(formation_id, target_pos, target_dir)
set_formation_target(formation_id, target_pos, target_dir) ==
    /\ ~crashed
    /\ pre' = formations
    /\ UNCHANGED <<tick, serial>>
    /\ prev_update' = NoUpdate
    /\ LET args == <<formation_id>>
           vecs == <<target_pos, target_dir>>
       IN IF ~Found(formation_id) \/ Len(target_pos) < 3 \/ Len(target_dir) < 3
          THEN /\ last' = CallV("set_formation_target", args, vecs, 0, "ERROR")
               /\ UNCHANGED formations
          ELSE /\ formations' = [formations EXCEPT
                     ![formation_id].has_target = TRUE,
                     ![formation_id].target_pos = SubSeq(target_pos, 1, 3),
                     ![formation_id].target_dir = NormalizeDir(target_dir)]
               /\ last' = CallV("set_formation_target", args, vecs, 0, "PROGRESS")
    /\ calls' = <<>>
    /\ UNCHANGED <<next_formation_id, lifecycle, crowd, crashed, created, deleted>>

-----------------------------------------------------------------------------
(* update_formations *)

\* a * b of two fixed-point values
FMul(a, b) == FDiv(a * b, Scale)

\* the literal 3.14159f
Pi == (314159 * Scale + 50000) \div 100000

\* sinf of an angle between -Pi/2 and Pi/2, by its series
SinSeries(x) ==
    LET x2 == FMul(x, x)
        t3 == FDiv(FMul(x, x2), 6)
        t5 == FDiv(FMul(t3, x2), 20)
        t7 == FDiv(FMul(t5, x2), 42)
        t9 == FDiv(FMul(t7, x2), 72)
    IN x - t3 + t5 - t7 + t9

\* sinf(angle)
sinf(angle) ==
    LET a == angle % (2 * Pi)
    IN IF a <= Pi \div 2 THEN SinSeries(a)
       ELSE IF a <= Pi + Pi \div 2 THEN SinSeries(Pi - a)
       ELSE SinSeries(a - 2 * Pi)

\* cosf(angle)
cosf(angle) == sinf(angle + Pi \div 2)

\* (int)ceil(sqrtf((float)n))
CeilSqrt(n) == LET r == ISqrt(n) IN IF r * r = n THEN r ELSE r + 1

\* lines 1853-1864: the right vector, perpendicular to dir in the XZ plane,
\* normalised only when its length exceeds 0.001f
RightOf(dir) ==
    LET r0 == dir[3]
        r2 == -dir[1]
        right_len == ISqrt(r0 * r0 + r2 * r2)
    IN IF right_len > MinLen
       THEN <<FDiv(r0 * Scale, right_len), 0, FDiv(r2 * Scale, right_len)>>
       ELSE <<r0, 0, r2>>

\* Line laid out from slot 0 to the right, without centring
LineOffset_uncentred(f, i, right) ==
    <<FMul(i * f.spacing, right[1]), FMul(i * f.spacing, right[3])>>

\* case 0, Line: <<offset_x, offset_z>> of slot i
LineOffset(f, i, right) ==
    LET num_agents == Len(f.agent_indices)
        center_idx == num_agents \div 2
    IN <<FMul((i - center_idx) * f.spacing, right[1]),
         FMul((i - center_idx) * f.spacing, right[3])>>

\* Column laid out ahead of the pose
ColumnOffset_ahead(f, i, right) ==
    <<FMul(i * f.spacing, f.target_dir[1]), FMul(i * f.spacing, f.target_dir[3])>>

\* case 1, Column
ColumnOffset(f, i, right) ==
    <<FMul((-i) * f.spacing, f.target_dir[1]),
      FMul((-i) * f.spacing, f.target_dir[3])>>

\* Wedge with row / 2 as an integer division
WedgeOffset_truncated(f, i, right) ==
    LET row == ISqrt(i)
        col == i - row * row
        lateral == (col - row \div 2) * f.spacing
    IN <<FMul(lateral, right[1]) - FMul(row * f.spacing, f.target_dir[1]),
         FMul(lateral, right[3]) - FMul(row * f.spacing, f.target_dir[3])>>

\* case 2, Wedge
WedgeOffset(f, i, right) ==
    LET row == ISqrt(i)
        col == i - row * row
        lateral == FMul(col * Scale - FDiv(row * Scale, 2), f.spacing)
    IN <<FMul(lateral, right[1]) - FMul(row * f.spacing, f.target_dir[1]),
         FMul(lateral, right[3]) - FMul(row * f.spacing, f.target_dir[3])>>

\* Box with sqrtf rounded down for the side
BoxOffset_floor(f, i, right) ==
    LET num_agents == Len(f.agent_indices)
        side_len == ISqrt(num_agents)
        row == i \div side_len
        col == i % side_len
        lateral == FMul(col * Scale - FDiv(side_len * Scale, 2), f.spacing)
    IN <<FMul(lateral, right[1]) - FMul(row * f.spacing, f.target_dir[1]),
         FMul(lateral, right[3]) - FMul(row * f.spacing, f.target_dir[3])>>

\* case 3, Box
BoxOffset(f, i, right) ==
    LET num_agents == Len(f.agent_indices)
        side_len == CeilSqrt(num_agents)
        row == i \div side_len
        col == i % side_len
        lateral == FMul(col * Scale - FDiv(side_len * Scale, 2), f.spacing)
    IN <<FMul(lateral, right[1]) - FMul(row * f.spacing, f.target_dir[1]),
         FMul(lateral, right[3]) - FMul(row * f.spacing, f.target_dir[3])>>

\* Circle with the radius not divided by 2 * pi
CircleOffset_wide(f, i, right) ==
    LET num_agents == Len(f.agent_indices)
        angle == FMul(FMul(FDiv(i * Scale, num_agents), 2 * Scale), Pi)
        radius == f.spacing * num_agents
    IN <<FMul(FMul(radius, cosf(angle)), right[1])
            + FMul(FMul(radius, sinf(angle)), f.target_dir[1]),
         FMul(FMul(radius, cosf(angle)), right[3])
            + FMul(FMul(radius, sinf(angle)), f.target_dir[3])>>

\* case 4, Circle
CircleOffset(f, i, right) ==
    LET num_agents == Len(f.agent_indices)
        angle == FMul(FMul(FDiv(i * Scale, num_agents), 2 * Scale), Pi)
        radius == FDiv(f.spacing * num_agents * Scale, FMul(2 * Scale, Pi))
    IN <<FMul(FMul(radius, cosf(angle)), right[1])
            + FMul(FMul(radius, sinf(angle)), f.target_dir[1]),
         FMul(FMul(radius, cosf(angle)), right[3])
            + FMul(FMul(radius, sinf(angle)), f.target_dir[3])>>

\* lines 1876-1923: the switch on formation.type; no case leaves both zero
\* the switch taking no case
SlotOffset_centre(f, i, right) == <<0, 0>>

SlotOffset(f, i, right) ==
    CASE f.type = 0 -> LineOffset(f, i, right)
      [] f.type = 1 -> ColumnOffset(f, i, right)
      [] f.type = 2 -> WedgeOffset(f, i, right)
      [] f.type = 3 -> BoxOffset(f, i, right)
      [] f.type = 4 -> CircleOffset(f, i, right)
      [] OTHER -> <<0, 0>>

\* the target of slot i following the y component of the heading
SlotTarget_tilted(f, i, right) ==
    LET offset == SlotOffset(f, i, right)
    IN <<f.target_pos[1] + offset[1],
         f.target_pos[2] + FMul(offset[2], f.target_dir[2]),
         f.target_pos[3] + offset[2]>>

\* lines 1925-1929: the target of slot i
SlotTarget(f, i, right) ==
    LET offset == SlotOffset(f, i, right)
    IN <<f.target_pos[1] + offset[1], f.target_pos[2], f.target_pos[3] + offset[2]>>

\* update_formations without the has_target test
Targeted_untargeted(f) == f.agent_indices # <<>>

\* line 1843: the formation is not skipped
Targeted(f) == f.has_target /\ f.agent_indices # <<>>

\* update_formations laying out the members that exist only: the group
\* size and the slot indices are those of the sequence without the others
SlotRequests_compacted(f, c, right, k) ==
    LET Exists(agent_idx) == ~InvalidIndex(c, agent_idx) /\ agent_active(c, agent_idx)
        live == SelectSeq(f.agent_indices, Exists)
    IN [n \in 1 .. Len(live) |->
          <<"requestMoveTarget", live[n],
            SlotTarget([f EXCEPT !.agent_indices = live], n - 1, right)>>]

\* lines 1868-1936: the requestMoveTarget calls for the members from the
\* k-th on, in slot order (slot i of the code is k - 1)
RECURSIVE SlotRequests(_, _, _, _)
SlotRequests(f, c, right, k) ==
    IF k > Len(f.agent_indices) THEN <<>>
    ELSE LET agent_idx == f.agent_indices[k]
         IN (IF ~InvalidIndex(c, agent_idx) /\ agent_active(c, agent_idx)
             THEN <<<<"requestMoveTarget", agent_idx, SlotTarget(f, k - 1, right)>>>>
             ELSE <<>>)
            \o SlotRequests(f, c, right, k + 1)

\* lines 1839-1937: the formations of ids in ascending id order
RECURSIVE FormationRequests(_, _)
FormationRequests(ids, c) ==
    IF ids = {} THEN <<>>
    ELSE LET id == CHOOSE m \in ids : \A j \in ids : m <= j
             f == formations[id]
         IN (IF Targeted(f) THEN SlotRequests(f, c, RightOf(f.target_dir), 1) ELSE <<>>)
            \o FormationRequests(ids \ {id}, c)

\* update_formations moving every target by dt along x
Requests_drifting(dt) ==
    LET R == FormationRequests(DOMAIN formations, crowd)
    IN [k \in 1 .. Len(R) |->
          <<R[k][1], R[k][2], <<R[k][3][1] + dt, R[k][3][2], R[k][3][3]>>>>]

\* the calls one update_formations(dt) makes on the crowd
Requests(dt) == FormationRequests(DOMAIN formations, crowd)

\* update_formations clearing has_target of every formation it has served
update_formations_consuming(dt) ==
    /\ ~crashed
    /\ pre' = formations
    /\ UNCHANGED <<tick, serial>>
    /\ prev_update' = IF last.op = "update_formations"
                      THEN [dt |-> last.args[1], calls |-> calls]
                      ELSE NoUpdate
    /\ last' = Call("update_formations", <<dt>>, 0, "NONE")
    /\ IF ~is_crowd_init
       THEN /\ calls' = <<>>
            /\ UNCHANGED <<formations, crashed>>
       ELSE IF crowd = NULL /\ \E id \in DOMAIN formations : Targeted(formations[id])
       THEN /\ crashed' = TRUE
            /\ calls' = <<>>
            /\ UNCHANGED formations
       ELSE /\ calls' = Requests(dt)
            /\ formations' = [i \in DOMAIN formations |->
                                [formations[i] EXCEPT !.has_target = FALSE]]
            /\ UNCHANGED crashed
    /\ UNCHANGED <<next_formation_id, lifecycle, crowd, created, deleted>>

\* update_formations(dt)
update_formations(dt) ==
    /\ ~crashed
    /\ pre' = formations
    /\ UNCHANGED <<tick, serial>>
    /\ prev_update' = IF last.op = "update_formations"
                      THEN [dt |-> last.args[1], calls |-> calls]
                      ELSE NoUpdate
    /\ last' = Call("update_formations", <<dt>>, 0, "NONE")
    /\ IF ~is_crowd_init
       THEN /\ calls' = <<>>
            /\ UNCHANGED crashed
       ELSE IF crowd = NULL /\ \E id \in DOMAIN formations : Targeted(formations[id])
       THEN \* crowd->getAgentCount() through a null pointer
            /\ crashed' = TRUE
            /\ calls' = <<>>
       ELSE /\ calls' = Requests(dt)
            /\ UNCHANGED crashed
    /\ UNCHANGED <<formations, next_formation_id, lifecycle, crowd, created, deleted>>

-----------------------------------------------------------------------------
(* update_formations statement by statement, for callers that run other
   operations while the call has not returned *)

\* the iterator jumping to the live formation of the largest id
NextFormationId_last(k) ==
    LET ids == {j \in DOMAIN formations : j > k}
    IN IF ids = {} THEN -1 ELSE CHOOSE m \in ids : \A j \in ids : m >= j

\* ++it over std::map: the smallest live id above k, -1 at end()
NextFormationId(k) ==
    LET ids == {j \in DOMAIN formations : j > k}
    IN IF ids = {} THEN -1 ELSE CHOOSE m \in ids : \A j \in ids : m <= j

\* the position of the call t once its iterator stands on k
MoveTo(t, k) ==
    [t EXCEPT !.pos = IF k = -1 THEN "idle" ELSE "formation",
              !.id = k, !.i = 0, !.num_agents = 0, !.right = <<0, 0, 0>>]

\* the member loop running one slot too far
SlotCount_over(f) == Len(f.agent_indices) + 1

\* line 1866: int num_agents = (int)formation.agent_indices.size()
SlotCount(f) == Len(f.agent_indices)

\* the formation as the member loop sees it: the group size is the
\* num_agents taken on entering the formation, the members are read from
\* the stored sequence
Captured(f, num_agents) ==
    [f EXCEPT !.agent_indices =
        [k \in 1 .. num_agents |->
            IF k <= Len(f.agent_indices) THEN f.agent_indices[k] ELSE -1]]

\* what an invalid read can give: an index the range test refuses, or the
\* index of some agent slot
Garbage(c) == -1 .. (getAgentCount(c) - 1)

\* lines 1832-1839: the call is made and its iterator set to begin()
update_formations_begin(dt) ==
    /\ ~crashed
    /\ tick.pos = "idle"
    /\ pre' = formations
    /\ prev_update' = NoUpdate
    /\ last' = Call("update_formations", <<dt>>, 0, "NONE")
    /\ calls' = <<>>
    /\ tick' = IF ~is_crowd_init THEN Idle ELSE MoveTo(Idle, NextFormationId(-1))
    /\ UNCHANGED <<formations, next_formation_id, lifecycle, crowd, crashed,
                   created, deleted, serial>>

\* lines 1841-1866: the formation under the iterator is skipped or entered
update_formations_formation ==
    /\ ~crashed
    /\ tick.pos = "formation"
    /\ IF ~Found(tick.id)
       THEN \* pair refers to a node that has been erased
            /\ tick' = [MoveTo(tick, -1) EXCEPT !.torn = "erased"]
            /\ crashed' \in BOOLEAN
       ELSE LET formation == formations[tick.id]
            IN /\ tick' = IF ~Targeted(formation)
                          THEN MoveTo(tick, NextFormationId(tick.id))
                          ELSE [tick EXCEPT !.pos = "slot", !.i = 0,
                                            !.num_agents = SlotCount(formation),
                                            !.right = RightOf(formation.target_dir)]
               /\ UNCHANGED crashed
    /\ UNCHANGED <<formations, next_formation_id, lifecycle, crowd, last, calls,
                   created, deleted, pre, prev_update, serial>>

\* lines 1868-1936: one turn of the member loop
update_formations_slot ==
    /\ ~crashed
    /\ tick.pos = "slot"
    /\ IF ~Found(tick.id)
       THEN \* formation refers to a node that has been erased
            /\ tick' = [MoveTo(tick, -1) EXCEPT !.torn = "erased"]
            /\ crashed' \in BOOLEAN
            /\ UNCHANGED calls
       ELSE LET formation == formations[tick.id]
                torn == tick.i >= Len(formation.agent_indices)
                after == IF tick.i + 1 < tick.num_agents
                         THEN [tick EXCEPT !.i = tick.i + 1]
                         ELSE MoveTo(tick, NextFormationId(tick.id))
            IN \E agent_idx \in (IF torn THEN Garbage(crowd)
                                  ELSE {formation.agent_indices[tick.i + 1]}) :
                  /\ tick' = IF torn THEN [after EXCEPT !.torn = "past_end"] ELSE after
                  /\ crashed' \in (IF torn THEN BOOLEAN ELSE {FALSE})
                  /\ calls' =
                        IF ~InvalidIndex(crowd, agent_idx) /\ agent_active(crowd, agent_idx)
                        THEN Append(calls,
                                    <<"requestMoveTarget", agent_idx,
                                      SlotTarget(Captured(formation, tick.num_agents),
                                                 tick.i, tick.right)>>)
                        ELSE calls
    /\ UNCHANGED <<formations, next_formation_id, lifecycle, crowd, last,
                   created, deleted, pre, prev_update, serial>>

-----------------------------------------------------------------------------
(* Queries *)

\* get_formation_agents(formation_id)
get_formation_agents(formation_id) ==
    IF ~Found(formation_id) THEN <<>> ELSE formations[formation_id].agent_indices

\* a value-initialised Formation: what std::map::operator[] inserts
ZeroFormation ==
    [id            |-> 0,
     type          |-> 0,
     spacing       |-> 0,
     leader_idx    |-> 0,
     agent_indices |-> <<>>,
     target_pos    |-> <<0, 0, 0>>,
     target_dir    |-> <<0, 0, 0>>,
     has_target    |-> FALSE]

\* the registry after formations[formation_id] has been evaluated
Subscript(m, formation_id) ==
    IF formation_id \in DOMAIN m THEN m ELSE MapPut(m, formation_id, ZeroFormation)

\* (float) of an int
ToFloat(n) == n * Scale

\* the twelve values of get_formation_info, in the order they are set
InfoOf(f) ==
    <<ToFloat(f.id), ToFloat(f.type), f.spacing, ToFloat(f.leader_idx),
      ToFloat(Len(f.agent_indices)), IF f.has_target THEN Scale ELSE 0,
      f.target_pos[1], f.target_pos[2], f.target_pos[3],
      f.target_dir[1], f.target_dir[2], f.target_dir[3]>>

\* get_formation_agents without the find test
get_formation_agents_unchecked(formation_id) ==
    /\ ~crashed
    /\ pre' = formations
    /\ UNCHANGED <<tick, serial>>
    /\ prev_update' = NoUpdate
    /\ formations' = Subscript(formations, formation_id)
    /\ last' = CallV("get_formation_agents", <<formation_id>>,
                     <<formations'[formation_id].agent_indices>>, 0, "NONE")
    /\ calls' = <<>>
    /\ UNCHANGED <<next_formation_id, lifecycle, crowd, crashed, created, deleted>>

\* the call get_formation_agents(formation_id): the vector it returns is
\* the one element of last.vecs
get_formation_agents_call(formation_id) ==
    /\ ~crashed
    /\ pre' = formations
    /\ UNCHANGED <<tick, serial>>
    /\ prev_update' = NoUpdate
    /\ IF ~Found(formation_id)
       THEN /\ last' = CallV("get_formation_agents", <<formation_id>>, <<<<>>>>, 0, "ERROR")
            /\ UNCHANGED formations
       ELSE /\ formations' = Subscript(formations, formation_id)
            /\ last' = CallV("get_formation_agents", <<formation_id>>,
                             <<get_formation_agents(formation_id)>>, 0, "NONE")
    /\ calls' = <<>>
    /\ UNCHANGED <<next_formation_id, lifecycle, crowd, crashed, created, deleted>>

\* get_formation_info(formation_id): last.vecs is empty for the empty map,
\* and holds the values of the map otherwise
get_formation_info(formation_id) ==
    /\ ~crashed
    /\ pre' = formations
    /\ UNCHANGED <<tick, serial>>
    /\ prev_update' = NoUpdate
    /\ IF ~Found(formation_id)
       THEN /\ last' = CallV("get_formation_info", <<formation_id>>, <<>>, 0, "ERROR")
            /\ UNCHANGED formations
       ELSE /\ formations' = Subscript(formations, formation_id)
            /\ last' = CallV("get_formation_info", <<formation_id>>,
                             <<InfoOf(formations[formation_id])>>, 0, "NONE")
    /\ calls' = <<>>
    /\ UNCHANGED <<next_formation_id, lifecycle, crowd, crashed, created, deleted>>

\* get_formation_count answering the number of ids handed out
get_formation_count_issued == next_formation_id

\* get_formation_count()
get_formation_count == Cardinality(DOMAIN formations)

-----------------------------------------------------------------------------
Next ==
    \/ \E loaded \in LoadOutcomes : init_by_obj(loaded)
    \/ \E built \in BuildOutcomes : build_navmesh(built)
    \/ \E n \in CrowdCapacities, o \in InitOutcomes : init_crowd(n, o)
    \/ add_agent
    \/ \E idx \in AgentSlots : remove_agent(idx)
    \/ \E t \in FormationTypes, s \in Spacings :
          next_formation_id \in FormationIds /\ create_formation(t, s)
    \/ \E id \in FormationIds : delete_formation(id)
    \/ \E id \in FormationIds, a \in AgentIdxs : add_agent_to_formation(id, a)
    \/ \E a \in AgentIdxs : remove_agent_from_formation(a)
    \/ \E id \in FormationIds, a \in AgentSlots : set_formation_leader(id, a)
    \/ \E id \in FormationIds, t \in TargetInputs : set_formation_target(id, t[1], t[2])
    \/ \E dt \in DtValues : update_formations(dt)

Spec == Init /\ [][Next]_vars

-----------------------------------------------------------------------------
(* The registry alone: more ids, formation types and spacings of either sign *)

RegistryTypes == {0, 4}
RegistrySpacings == {-Scale, 0, 2 * Scale}

NextRegistry ==
    \/ init_by_obj(TRUE)
    \/ build_navmesh(TRUE)
    \/ init_crowd(1, "ok")
    \/ \E t \in RegistryTypes, s \in RegistrySpacings :
          next_formation_id < MaxRegistryId /\ create_formation(t, s)
    \/ \E id \in 0 .. (MaxRegistryId - 1) : delete_formation(id)

SpecRegistry == Init /\ [][NextRegistry]_vars

-----------------------------------------------------------------------------
(* Slot order: a crowd of MaxSlotAgents slots is already initialised *)

InitSlots ==
    /\ formations = << >>
    /\ next_formation_id = 0
    /\ is_init = TRUE
    /\ is_build = TRUE
    /\ is_crowd_init = TRUE
    /\ crowd = [maxAgents |-> MaxSlotAgents, active |-> {}]
    /\ crashed = FALSE
    /\ last = Call("init_crowd", <<MaxSlotAgents>>, 1, "NONE")
    /\ calls = <<<<"init">>>>
    /\ created = <<>>
    /\ deleted = 0
    /\ pre = << >>
    /\ prev_update = NoUpdate
    /\ tick = Idle
    /\ serial = TRUE

NextSlots ==
    \/ \E t \in FormationTypes, s \in Spacings :
          next_formation_id < MaxSlotFormations /\ create_formation(t, s)
    \/ \E id \in 0 .. (MaxSlotFormations - 1), a \in 0 .. (MaxSlotAgents - 1) :
          add_agent_to_formation(id, a)
    \/ \E a \in 0 .. (MaxSlotAgents - 1) : remove_agent_from_formation(a)
    \/ \E id \in 0 .. (MaxSlotFormations - 1) : delete_formation(id)

SpecSlots == InitSlots /\ [][NextSlots]_vars

-----------------------------------------------------------------------------
(* Layout: one formation of any topology, filled in agent order, over a crowd
   of MaxLayoutAgents agents that have all been added *)

\* the five topologies and a type that names none
LayoutTypes == 0 .. 5
LayoutSpacings == {2 * Scale, (3 * Scale) \div 2}
\* <<target_pos, target_dir>>: headings along z and x, diagonal, reversed and
\* of length 2, vertical, tilted out of the ground plane, without length and
\* of length 0.001; a position and a heading of two components
LayoutPoses ==
    {<<<<50 * Scale, 0, 50 * Scale>>, <<0, 0, Scale>>>>,
     <<<<50 * Scale, 0, 50 * Scale>>, <<Scale, 0, 0>>>>,
     <<<<10 * Scale, Scale, -5 * Scale>>, <<Scale, 0, Scale>>>>,
     <<<<10 * Scale, Scale, -5 * Scale>>, <<0, 0, -2 * Scale>>>>,
     <<<<50 * Scale, 0, 50 * Scale>>, <<0, Scale, 0>>>>,
     <<<<10 * Scale, Scale, -5 * Scale>>, <<0, 3 * Scale, 4 * Scale>>>>,
     <<<<50 * Scale, 0, 50 * Scale>>, <<0, 0, 0>>>>,
     <<<<50 * Scale, 0, 50 * Scale>>, <<0, 0, MinLen>>>>,
     <<<<Scale, 2 * Scale>>, <<0, 0, Scale>>>>,
     <<<<Scale, 2 * Scale, 3 * Scale>>, <<Scale, 0>>>>}
\* the agents that the caller removes from the crowd
LayoutRemoved == {0, 1}

InitLayout ==
    /\ formations = << >>
    /\ next_formation_id = 0
    /\ is_init = TRUE
    /\ is_build = TRUE
    /\ is_crowd_init = TRUE
    /\ crowd = [maxAgents |-> MaxLayoutAgents, active |-> 0 .. (MaxLayoutAgents - 1)]
    /\ crashed = FALSE
    /\ last = Call("add_agent", <<>>, MaxLayoutAgents - 1, "NONE")
    /\ calls = <<<<"addAgent", MaxLayoutAgents - 1>>>>
    /\ created = <<>>
    /\ deleted = 0
    /\ pre = << >>
    /\ prev_update = NoUpdate
    /\ tick = Idle
    /\ serial = TRUE

NextLayout ==
    \/ \E t \in LayoutTypes, s \in LayoutSpacings :
          next_formation_id = 0 /\ create_formation(t, s)
    \/ add_agent_to_formation(0, Len(get_formation_agents(0)))
    \/ \E t \in LayoutPoses : set_formation_target(0, t[1], t[2])
    \/ \E idx \in LayoutRemoved : remove_agent(idx)
    \/ \E dt \in DtValues : update_formations(dt)

SpecLayout == InitLayout /\ [][NextLayout]_vars

-----------------------------------------------------------------------------
(* Ticks: update_formations proceeds statement by statement over a crowd of
   MaxTickAgents agents; a caller that is not serial runs
   remove_agent_from_formation and delete_formation while an
   update_formations call has not returned *)

TickPose == <<<<50 * Scale, 0, 50 * Scale>>, <<0, 0, Scale>>>>

\* the caller may run an operation that shrinks the registry now
Between == serial => tick.pos = "idle"

InitTicks ==
    /\ formations = << >>
    /\ next_formation_id = 0
    /\ is_init = TRUE
    /\ is_build = TRUE
    /\ is_crowd_init = TRUE
    /\ crowd = [maxAgents |-> MaxTickAgents, active |-> 0 .. (MaxTickAgents - 1)]
    /\ crashed = FALSE
    /\ last = Call("add_agent", <<>>, MaxTickAgents - 1, "NONE")
    /\ calls = <<<<"addAgent", MaxTickAgents - 1>>>>
    /\ created = <<>>
    /\ deleted = 0
    /\ pre = << >>
    /\ prev_update = NoUpdate
    /\ tick = Idle
    /\ serial \in BOOLEAN

NextTicks ==
    \/ \E t \in FormationTypes, s \in Spacings :
          /\ tick.pos = "idle"
          /\ next_formation_id \in FormationIds
          /\ create_formation(t, s)
    \/ \E id \in FormationIds, a \in 0 .. (MaxTickAgents - 1) :
          tick.pos = "idle" /\ add_agent_to_formation(id, a)
    \/ \E id \in FormationIds :
          tick.pos = "idle" /\ set_formation_target(id, TickPose[1], TickPose[2])
    \/ \E a \in 0 .. (MaxTickAgents - 1) : Between /\ remove_agent_from_formation(a)
    \/ \E id \in FormationIds : Between /\ delete_formation(id)
    \/ update_formations_begin(16)
    \/ update_formations_formation
    \/ update_formations_slot

SpecTicks == InitTicks /\ [][NextTicks]_vars

-----------------------------------------------------------------------------
(* Stale members: the formation of SpecLayout as a Line or a Box, whose
   members the caller removes from the crowd and from the formation *)

StaleTypes == {0, 3}
StalePose == <<<<50 * Scale, 0, 50 * Scale>>, <<Scale, 0, 0>>>>

NextStale ==
    \/ \E t \in StaleTypes, s \in Spacings :
          next_formation_id = 0 /\ create_formation(t, s)
    \/ add_agent_to_formation(0, Len(get_formation_agents(0)))
    \/ set_formation_target(0, StalePose[1], StalePose[2])
    \/ \E idx \in LayoutRemoved : remove_agent(idx)
    \/ \E idx \in LayoutRemoved : remove_agent_from_formation(idx)
    \/ \E dt \in DtValues : update_formations(dt)

SpecStale == InitLayout /\ [][NextStale]_vars

-----------------------------------------------------------------------------
(* Lookups: every operation that takes a formation id, called with ids that
   are live, not yet created, or deleted *)

NextLookup ==
    \/ \E t \in FormationTypes, s \in Spacings :
          next_formation_id \in FormationIds /\ create_formation(t, s)
    \/ \E id \in FormationIds : delete_formation(id)
    \/ \E id \in FormationIds : add_agent_to_formation(id, 0)
    \/ \E id \in FormationIds : set_formation_leader(id, 0)
    \/ \E id \in FormationIds : set_formation_target(id, StalePose[1], StalePose[2])
    \/ \E id \in FormationIds : get_formation_agents_call(id)
    \/ \E id \in FormationIds : get_formation_info(id)

SpecLookup == InitSlots /\ [][NextLookup]_vars

-----------------------------------------------------------------------------
(* Properties *)

\* the elements of a sequence
ElemsOf(v) == {v[k] : k \in 1 .. Len(v)}

\* the formation_id / agent_idx argument of the latest call
LastFormation == last.args[1]
LastAgent == last.args[Len(last.args)]

\* the Movement Engine reports the agent as existing
AgentExists(agent_idx) == crowd # NULL /\ agent_active(crowd, agent_idx)

\* the formations of the registry before the latest call that held agent_idx
HoldersBefore(agent_idx) ==
    {i \in DOMAIN pre : Contains(pre[i].agent_indices, agent_idx)}

\* v with its k-th element taken out
Without(v, k) == SubSeq(v, 1, k - 1) \o SubSeq(v, k + 1, Len(v))

\* C1: in every reachable state the leader of every live formation is unset
\* (-1) or one of that formation's members.
LeaderIsMember ==
    \A i \in DOMAIN formations :
        \/ formations[i].leader_idx = -1
        \/ formations[i].leader_idx \in ElemsOf(formations[i].agent_indices)

\* C1 witness: an agent that led two formations has just been removed from
\* one of them, whose leader is now unset, and still leads the other.
LeaderClearedInOneOfTwo ==
    /\ last.op = "remove_agent_from_formation"
    /\ last.ret = 1
    /\ \E i, j \in DOMAIN formations :
          /\ i # j
          /\ pre[i].leader_idx = LastAgent
          /\ formations[i].leader_idx = -1
          /\ formations[j].leader_idx = LastAgent

\* C2: in every reachable state an agent handle is a member of at most one
\* live formation.
ExclusiveMembership ==
    \A i, j \in DOMAIN formations :
        i # j => ElemsOf(formations[i].agent_indices)
                    \cap ElemsOf(formations[j].agent_indices) = {}

\* C3: every id returned by a successful create_formation is strictly greater
\* than every id returned before it, deleted or not, and names the new formation.
CreatedIdsIncrease ==
    /\ \A k, m \in 1 .. Len(created) : k < m => created[k] < created[m]
    /\ (last.op = "create_formation" /\ last.ret # -1) =>
          /\ created # <<>>
          /\ last.ret = created[Len(created)]
          /\ last.ret \notin DOMAIN pre
          /\ last.ret \in DOMAIN formations

\* C3 witness: a create_formation has succeeded after an earlier formation
\* was deleted.
CreatedAfterDelete ==
    /\ last.op = "create_formation"
    /\ last.ret # -1
    /\ Len(created) >= 3
    /\ \E k \in 1 .. Len(created) : created[k] \notin DOMAIN formations

\* C4: create_formation with spacing <= 0 returns an error and adds no
\* formation, so every live formation has spacing > 0.
NonPositiveSpacingRejected ==
    /\ \A i \in DOMAIN formations : formations[i].spacing > 0
    /\ (last.op = "create_formation" /\ last.args[2] <= 0) =>
          (last.ret = -1 /\ formations = pre)

\* C5: add_agent_to_formation returns false and changes no formation when the
\* Movement Engine does not report the agent as existing.
MissingAgentRejected ==
    (last.op = "add_agent_to_formation" /\ ~crashed /\ ~AgentExists(LastAgent)) =>
        (last.ret = 0 /\ formations = pre)

RemoveNonMemberFails ==
    (last.op = "remove_agent_from_formation" /\ HoldersBefore(LastAgent) = {}) =>
        (last.ret = 0 /\ formations = pre)

\* C7 witness: with the crowd initialised, a remove was refused for an agent
\* in no formation while a formation has a member, a leader and a target.
RemoveRefusedWithLiveFormation ==
    /\ last.op = "remove_agent_from_formation"
    /\ last.log = "WARNING"
    /\ HoldersBefore(LastAgent) = {}
    /\ \E i \in DOMAIN formations :
          /\ formations[i].leader_idx # -1
          /\ formations[i].has_target

\* C8: get_formation_agents returns the members in insertion order: a
\* successful remove takes out exactly one element of one formation and keeps
\* the order of the rest, an add appends at the end or changes nothing, and
\* no other call changes the members of a formation.
SlotOrderKept ==
    /\ \A i \in DOMAIN formations :
          get_formation_agents(i) = formations[i].agent_indices
    /\ (last.op = "remove_agent_from_formation" /\ last.ret = 1) =>
          /\ DOMAIN formations = DOMAIN pre
          /\ \E i \in DOMAIN pre :
                /\ \E k \in 1 .. Len(pre[i].agent_indices) :
                      /\ pre[i].agent_indices[k] = LastAgent
                      /\ formations[i].agent_indices = Without(pre[i].agent_indices, k)
                /\ \A j \in DOMAIN pre \ {i} :
                      formations[j].agent_indices = pre[j].agent_indices
    /\ (last.op = "add_agent_to_formation") =>
          /\ DOMAIN formations = DOMAIN pre
          /\ \A i \in DOMAIN pre :
                \/ formations[i].agent_indices = pre[i].agent_indices
                \/ /\ i = LastFormation
                   /\ last.ret = 1
                   /\ formations[i].agent_indices = Append(pre[i].agent_indices, LastAgent)
    /\ (last.op \notin {"remove_agent_from_formation", "add_agent_to_formation"}) =>
          /\ \A i \in DOMAIN formations \cap DOMAIN pre :
                formations[i].agent_indices = pre[i].agent_indices
          /\ \A i \in DOMAIN formations \ DOMAIN pre :
                formations[i].agent_indices = <<>>

\* C8 witness: the first of three members has been removed and the two
\* others have moved down one slot, in their order.
FirstOfThreeRemoved ==
    /\ last.op = "remove_agent_from_formation"
    /\ last.ret = 1
    /\ \E i \in DOMAIN pre :
          /\ Len(pre[i].agent_indices) = 3
          /\ pre[i].agent_indices[1] = LastAgent
          /\ formations[i].agent_indices =
                <<pre[i].agent_indices[2], pre[i].agent_indices[3]>>

\* C9: delete_formation with an id that is not in the registry logs an error
\* and changes nothing; with an id that is in the registry it succeeds and the
\* id is no longer there, so a second delete of it fails.
DeleteUnknownFails ==
    /\ (last.op = "delete_formation" /\ LastFormation \notin DOMAIN pre) =>
          (last.log = "ERROR" /\ formations = pre)
    /\ (last.op = "delete_formation" /\ LastFormation \in DOMAIN pre) =>
          (last.log = "PROGRESS" /\ LastFormation \notin DOMAIN formations)

\* C9 witness: a formation that was created and deleted has been deleted a
\* second time, with another formation live.
DeletedTwice ==
    /\ last.op = "delete_formation"
    /\ last.log = "ERROR"
    /\ LastFormation \in ElemsOf(created)
    /\ formations # << >>
    /\ formations = pre

\* C10: a successful delete_formation removes exactly that formation: the
\* count drops by one, its agents are no longer returned, every other
\* formation is unchanged and no crowd mutation is issued.
DeleteRemovesExactlyOne ==
    (last.op = "delete_formation" /\ LastFormation \in DOMAIN pre) =>
        /\ DOMAIN formations = DOMAIN pre \ {LastFormation}
        /\ get_formation_count = Cardinality(DOMAIN pre) - 1
        /\ get_formation_agents(LastFormation) = <<>>
        /\ \A j \in DOMAIN formations : formations[j] = pre[j]
        /\ calls = <<>>

\* C10 witness: a formation with members, one of them active in the crowd,
\* has been deleted while another formation is live.
DeletedWithMembers ==
    /\ last.op = "delete_formation"
    /\ last.log = "PROGRESS"
    /\ formations # << >>
    /\ \E a \in ElemsOf(pre[LastFormation].agent_indices) : AgentExists(a)

\* C11: set_formation_leader fails and leaves every formation's leader as it
\* was when the formation id is unknown or the agent is not a member of that
\* formation, also when it is a member of another one; it sets that
\* formation's leader to the agent, and nothing else, when the agent is a
\* member.
LeaderOnlyFromOwnMembers ==
    (last.op = "set_formation_leader") =>
        IF /\ LastFormation \in DOMAIN pre
           /\ LastAgent \in ElemsOf(pre[LastFormation].agent_indices)
        THEN /\ last.log = "PROGRESS"
             /\ DOMAIN formations = DOMAIN pre
             /\ formations[LastFormation].leader_idx = LastAgent
             /\ \A j \in DOMAIN pre \ {LastFormation} :
                    formations[j].leader_idx = pre[j].leader_idx
        ELSE /\ last.log = "ERROR"
             /\ DOMAIN formations = DOMAIN pre
             /\ \A j \in DOMAIN pre : formations[j].leader_idx = pre[j].leader_idx

\* C11 witness: an agent that is a member of another formation only has been
\* refused as leader of a live formation.
LeaderRefusedForOtherFormation ==
    /\ last.op = "set_formation_leader"
    /\ last.log = "ERROR"
    /\ LastFormation \in DOMAIN formations
    /\ HoldersBefore(LastAgent) # {}
    /\ LastFormation \notin HoldersBefore(LastAgent)
    /\ formations = pre

\* the absolute value
Abs(x) == IF x < 0 THEN -x ELSE x

\* h is the unit heading of the direction d: parallel to d and of length 1 up
\* to the fixed-point rounding, or (0,0,1) when d has no length
IsHeadingOf(h, d) ==
    IF VecLen(d) > MinLen
    THEN /\ \A k \in 1 .. 3 : Abs(h[k] * VecLen(d) - d[k] * Scale) < VecLen(d)
         /\ Abs(VecLen(h) - Scale) <= 2
    ELSE h = <<0, 0, Scale>>

\* the latest call was a set_formation_target that succeeded
TargetWasSet == last.op = "set_formation_target" /\ last.log = "PROGRESS"

\* C12: a formation has no target from its creation until the first
\* successful set_formation_target on it; that call stores the given
\* position and the unit heading of the given direction, and every other
\* call (add, remove, set_leader, update, calls on other formations, failed
\* calls) leaves has_target and the stored pose of every surviving formation
\* as they were, so has_target stays true and the pose is that of the most
\* recent successful set_formation_target.
TargetPersists ==
    /\ \A i \in DOMAIN formations \ DOMAIN pre : ~formations[i].has_target
    /\ TargetWasSet =>
          /\ LastFormation \in DOMAIN formations
          /\ formations[LastFormation].has_target
          /\ formations[LastFormation].target_pos = SubSeq(last.vecs[1], 1, 3)
          /\ IsHeadingOf(formations[LastFormation].target_dir, last.vecs[2])
    /\ \A i \in DOMAIN formations \cap DOMAIN pre :
          (TargetWasSet /\ i = LastFormation)
          \/ /\ formations[i].has_target = pre[i].has_target
             /\ formations[i].target_pos = pre[i].target_pos
             /\ formations[i].target_dir = pre[i].target_dir

\* C12 witness: a second set_formation_target has replaced the pose of a
\* formation while another formation keeps the pose it was given.
TargetReplaced ==
    /\ TargetWasSet
    /\ pre[LastFormation].has_target
    /\ pre[LastFormation].target_pos # formations[LastFormation].target_pos
    /\ \E j \in DOMAIN formations \ {LastFormation} :
          formations[j].has_target /\ formations[j].agent_indices # <<>>

\* the agents for which the latest call issued a move-target request
Requested == {calls[k][2] : k \in {m \in 1 .. Len(calls) : calls[m][1] = "requestMoveTarget"}}

\* C13: update_formations issues nothing but move-target requests, and one
\* for an agent only if that agent is, when the call is made, a member of a
\* live formation whose has_target is true.
RequestsOnlyForTargetedMembers ==
    (last.op = "update_formations") =>
        /\ \A k \in 1 .. Len(calls) : calls[k][1] = "requestMoveTarget"
        /\ \A a \in Requested :
              \E i \in DOMAIN pre :
                  pre[i].has_target /\ a \in ElemsOf(pre[i].agent_indices)

\* C13 witness: an update has issued a request while a live formation with
\* members has no target.
RequestedBesideUntargeted ==
    /\ last.op = "update_formations"
    /\ Requested # {}
    /\ \E j \in DOMAIN formations :
          ~formations[j].has_target /\ formations[j].agent_indices # <<>>

\* every member of a targeted formation that exists and is active has a
\* request from the latest call, and no missing agent has one
MembersServed ==
    /\ \A i \in DOMAIN pre :
          Targeted(pre[i]) =>
              \A a \in ElemsOf(pre[i].agent_indices) : AgentExists(a) => a \in Requested
    /\ \A a \in Requested : AgentExists(a)

\* C14: one update_formations call requests a target for every member, of
\* every formation with a target, that exists and is active in the crowd,
\* whatever members or formations processed before it are missing; a
\* missing member gets no request and the call completes without error.
UpdateServesEveryMember ==
    (last.op = "update_formations") => (~crashed /\ MembersServed)

\* C15: update_formations leaves the whole formation state as it was: the
\* set of live formations, every formation's members, leader, topology,
\* spacing, target pose and has_target, and the next id to be handed out.
UpdateKeepsRegistry ==
    [][(last'.op = "update_formations") => UNCHANGED <<formations, next_formation_id>>]_vars

\* C15 witness: an update has issued requests with two formations live, one
\* of them with a leader.
UpdatedWithLeader ==
    /\ last.op = "update_formations"
    /\ Requested # {}
    /\ Cardinality(DOMAIN formations) = 2
    /\ \E i \in DOMAIN formations : formations[i].leader_idx # -1
    /\ formations = pre

-----------------------------------------------------------------------------
(* Layout properties *)

\* the point lateral to the right of, and depth ahead of, the pose of f
Placed(f, lateral, depth) ==
    LET right == RightOf(f.target_dir)
    IN <<f.target_pos[1] + FMul(lateral, right[1]) + FMul(depth, f.target_dir[1]),
         f.target_pos[2],
         f.target_pos[3] + FMul(lateral, right[3]) + FMul(depth, f.target_dir[3])>>

\* t is e up to the fixed-point rounding
Near(t, e) == \A k \in 1 .. 3 : Abs(t[k] - e[k]) <= Scale \div 500

\* the latest call has requested the target e, up to rounding, for agent a
Dispatched(a, e) ==
    \E k \in 1 .. Len(calls) :
        calls[k][1] = "requestMoveTarget" /\ calls[k][2] = a /\ Near(calls[k][3], e)

\* the formations that the latest update_formations call has laid out as
\* topology t
LaidOut(t) ==
    IF last.op = "update_formations" /\ ~crashed /\ is_crowd_init
    THEN {i \in DOMAIN pre : Targeted(pre[i]) /\ pre[i].type = t}
    ELSE {}

\* the slots, from 0, of formation f whose member exists in the crowd
LiveSlots(f) == {i \in 0 .. (Len(f.agent_indices) - 1) : AgentExists(f.agent_indices[i + 1])}

\* every existing member of f has been requested the target Slot(f, i) of its slot i
LaidOutAs(f, Slot(_, _)) ==
    \A i \in LiveSlots(f) : Dispatched(f.agent_indices[i + 1], Slot(f, i))

\* the sum of the x (k = 1) or z (k = 3) offsets from c of the targets
\* requested by the latest call from the m-th request on
RECURSIVE OffsetSum(_, _, _)
OffsetSum(c, k, m) ==
    IF m > Len(calls) THEN 0 ELSE (calls[m][3][k] - c[k]) + OffsetSum(c, k, m + 1)

\* slot i of a Line of N members: lateral (i - (N-1)/2) * spacing, depth 0
LineSlot(f, i) ==
    Placed(f, FDiv((2 * i - (Len(f.agent_indices) - 1)) * f.spacing, 2), 0)

\* C17: in a Line of any N >= 1 members, even or odd, with spacing > 0 the
\* member at slot i is sent to lateral offset (i - (N-1)/2) * spacing from
\* the centre at depth 0, and when all members are served the offsets sum
\* to zero.
LineCentred ==
    \A id \in LaidOut(0) :
        (pre[id].spacing > 0) =>
            /\ LaidOutAs(pre[id], LineSlot)
            /\ (DOMAIN pre = {id} /\ Len(calls) = Len(pre[id].agent_indices)) =>
                  /\ Abs(OffsetSum(pre[id].target_pos, 1, 1)) <= Scale \div 500
                  /\ Abs(OffsetSum(pre[id].target_pos, 3, 1)) <= Scale \div 500

\* C18: in a Line of odd N with centre c and heading (0,0,1) the member at
\* slot i is sent to c + (i - (N-1)/2) * spacing along the right vector
\* (1,0,0), so the middle member is sent to c itself.
OddLineAlongX ==
    \A id \in LaidOut(0) :
        LET f == pre[id]
            N == Len(f.agent_indices)
        IN (f.target_dir = <<0, 0, Scale>> /\ N % 2 = 1) =>
              \A i \in LiveSlots(f) :
                  <<"requestMoveTarget", f.agent_indices[i + 1],
                    <<f.target_pos[1] + (i - (N - 1) \div 2) * f.spacing,
                      f.target_pos[2], f.target_pos[3]>>>> \in ElemsOf(calls)

\* C18 witness: five members, spacing 2, centre (50,0,50), heading (0,0,1):
\* the requests go to x = 46, 48, 50, 52, 54.
FiveInLine ==
    /\ last.op = "update_formations"
    /\ \E id \in DOMAIN formations : formations[id].type = 0
    /\ calls = [i \in 1 .. 5 |->
                  <<"requestMoveTarget", i - 1,
                    <<(44 + 2 * i) * Scale, 0, 50 * Scale>>>>]

\* slot i of a Column: center - i * spacing * heading, in all three coordinates
ColumnSlot(f, i) ==
    [k \in 1 .. 3 |-> f.target_pos[k] - FMul(i * f.spacing, f.target_dir[k])]

\* the squared distance from t to the centre of f
Dist2(f, t) ==
    (t[1] - f.target_pos[1]) * (t[1] - f.target_pos[1])
    + (t[2] - f.target_pos[2]) * (t[2] - f.target_pos[2])
    + (t[3] - f.target_pos[3]) * (t[3] - f.target_pos[3])

\* the members of a Column f are requested center - i * spacing * heading,
\* slot 0 the centre itself, each request farther from the centre than the
\* one before when f is the only formation and its spacing is positive
ColumnBehind(f) ==
    /\ LaidOutAs(f, ColumnSlot)
    /\ \A i \in LiveSlots(f) : Dispatched(f.agent_indices[i + 1], Placed(f, 0, -(i * f.spacing)))
    /\ 0 \in LiveSlots(f) =>
          <<"requestMoveTarget", f.agent_indices[1], f.target_pos>> \in ElemsOf(calls)
    /\ (DOMAIN pre = {f.id} /\ f.spacing > 0) =>
          \A p, q \in 1 .. Len(calls) :
              p < q => Dist2(f, calls[p][3]) < Dist2(f, calls[q][3])

WedgeRow(i) == CHOOSE r \in 0 .. i : r * r <= i /\ i < (r + 1) * (r + 1)

\* slot i of a Wedge: lateral (col - row/2) * spacing, depth -row * spacing
WedgeSlot(f, i) ==
    LET row == WedgeRow(i)
        col == i - row * row
    IN Placed(f, FDiv((2 * col - row) * f.spacing, 2), -(row * f.spacing))

\* C20: in a Wedge the member at slot i, for every i in 0..N-1, is sent to
\* row floor(sqrt(i)), column i - row^2: lateral (col - row/2) * spacing and
\* depth -row * spacing, so that row r holds the slots r^2 .. r^2 + 2r.
WedgeRows ==
    \A id \in LaidOut(2) : LaidOutAs(pre[id], WedgeSlot)

\* C20 witness: a Wedge of at least five members, all served, so that rows
\* 0, 1 and 2 are in use.
WedgeOfThreeRows ==
    \E id \in LaidOut(2) :
        /\ Len(calls) >= 5
        /\ Len(calls) = Len(pre[id].agent_indices)
        /\ pre[id].target_dir[1] # 0

\* the side of a Box of N members: the least s with s^2 >= N
BoxSide(N) == CHOOSE side \in 1 .. N : side * side >= N /\ (side - 1) * (side - 1) < N

\* slot i of a Box: lateral (col - side/2) * spacing, depth -row * spacing
BoxSlot(f, i) ==
    LET side == BoxSide(Len(f.agent_indices))
        row == i \div side
        col == i % side
    IN Placed(f, FDiv((2 * col - side) * f.spacing, 2), -(row * f.spacing))

\* C21: in a Box of N members the grid has side = ceil(sqrt(N)) columns and
\* the member at slot i is sent to row i div side, column i mod side:
\* lateral (col - side/2) * spacing and depth -row * spacing; the row index
\* never exceeds side - 1 and no row holds more than side slots.
BoxGrid ==
    \A id \in LaidOut(3) :
        LET N == Len(pre[id].agent_indices)
            side == BoxSide(N)
        IN /\ LaidOutAs(pre[id], BoxSlot)
           /\ \A i \in 0 .. (N - 1) : i \div side <= side - 1
           /\ \A row \in 0 .. (side - 1) :
                 Cardinality({i \in 0 .. (N - 1) : i \div side = row}) <= side

\* C21 witness: a Box of five members, all served: side 3, rows 0 and 1.
BoxOfFive ==
    \E id \in LaidOut(3) :
        /\ Len(pre[id].agent_indices) = 5
        /\ Len(calls) = 5
        /\ pre[id].target_dir[3] # 0

\* the target that the latest call has requested for agent a
TargetOf(a) == calls[CHOOSE k \in 1 .. Len(calls) : calls[k][2] = a][3]

\* the distance between two points
Gap(t, u) ==
    ISqrt((t[1] - u[1]) * (t[1] - u[1]) + (t[2] - u[2]) * (t[2] - u[2])
          + (t[3] - u[3]) * (t[3] - u[3]))

\* spacing * N / (2 * pi) of formation f, with pi taken as 355/113
CircleRadius(f) == FDiv(f.spacing * Len(f.agent_indices) * 113, 2 * 355)

\* the pairs <<i, j>> of live slots of f that are neighbours on the circle
Neighbours(f) ==
    {p \in LiveSlots(f) \X LiveSlots(f) :
        p[1] # p[2] /\ p[2] = (p[1] + 1) % Len(f.agent_indices)}

\* the distance between the targets requested for the slots of pair p
Chord(f, p) == Gap(TargetOf(f.agent_indices[p[1] + 1]), TargetOf(f.agent_indices[p[2] + 1]))

\* the members of a Circle f, the only formation, are requested points at
\* distance spacing * N / (2 * pi) from the centre, up to a hundredth: slot 0
\* straight to the right, neighbours equally far apart and no farther than
\* spacing
CircleRound(f) ==
    /\ \A i \in LiveSlots(f) :
          Abs(Gap(TargetOf(f.agent_indices[i + 1]), f.target_pos) - CircleRadius(f))
              <= Scale \div 100
    /\ 0 \in LiveSlots(f) =>
          Gap(TargetOf(f.agent_indices[1]), Placed(f, CircleRadius(f), 0)) <= Scale \div 100
    /\ \A p, q \in Neighbours(f) :
          /\ Abs(Chord(f, p) - Chord(f, q)) <= Scale \div 50
          /\ Chord(f, p) <= f.spacing + Scale \div 100
    /\ (Len(f.agent_indices) = 6 /\ f.spacing = 2 * Scale) =>
          \A i \in LiveSlots(f) :
              Abs(Gap(TargetOf(f.agent_indices[i + 1]), f.target_pos) - (191 * Scale) \div 100)
                  <= Scale \div 100

TargetsKeepHeight ==
    (last.op = "update_formations") =>
        \A k \in 1 .. Len(calls) :
            \E id \in DOMAIN pre :
                /\ Targeted(pre[id])
                /\ calls[k][2] \in ElemsOf(pre[id].agent_indices)
                /\ calls[k][3][2] = pre[id].target_pos[2]

\* C23 witness: a formation whose heading is tilted out of the ground plane
\* and whose centre is above the ground has been laid out, the targets of
\* its members differing.
LaidOutOnTiltedHeading ==
    /\ last.op = "update_formations"
    /\ \E id \in DOMAIN pre :
          /\ pre[id].target_dir[2] # 0
          /\ pre[id].target_dir[3] # 0
          /\ pre[id].target_pos[2] # 0
    /\ \E k, m \in 1 .. Len(calls) : calls[k][3] # calls[m][3]

\* C24: set_formation_target on a live formation with the heading (0,0,0)
\* does not fail: has_target becomes true, the position is stored and the
\* stored heading is (0,0,1); the stored heading of every formation is of
\* length 1, never the zero vector, in every reachable state.
HeadingNeverZero ==
    /\ \A id \in DOMAIN formations :
          /\ formations[id].target_dir # <<0, 0, 0>>
          /\ Abs(VecLen(formations[id].target_dir) - Scale) <= Scale \div 500
    /\ (/\ last.op = "set_formation_target"
        /\ LastFormation \in DOMAIN pre
        /\ Len(last.vecs[1]) >= 3
        /\ last.vecs[2] = <<0, 0, 0>>) =>
          /\ last.log = "PROGRESS"
          /\ formations[LastFormation].has_target
          /\ formations[LastFormation].target_pos = last.vecs[1]
          /\ formations[LastFormation].target_dir = <<0, 0, Scale>>

\* C24 witness: the heading (0,0,0) has been given to a formation whose
\* stored heading was another one.
ZeroHeadingGiven ==
    /\ last.op = "set_formation_target"
    /\ last.vecs[2] = <<0, 0, 0>>
    /\ LastFormation \in DOMAIN pre
    /\ pre[LastFormation].has_target
    /\ pre[LastFormation].target_dir # <<0, 0, Scale>>
    /\ formations[LastFormation].target_dir = <<0, 0, Scale>>

\* C25: every formation in the registry has a topology among Line = 0,
\* Column = 1, Wedge = 2, Box = 3, Circle = 4.
TopologyClosed ==
    \A id \in DOMAIN formations : formations[id].type \in 0 .. 4

\* C26: in every reachable state get_formation_count is the number of
\* create_formation calls that succeeded minus the number of
\* delete_formation calls that succeeded, and a call that is neither leaves
\* it as it was.
CountIsCreatedLessDeleted ==
    /\ get_formation_count = Len(created) - deleted
    /\ ~(\/ (last.op = "create_formation" /\ last.ret # -1)
         \/ (last.op = "delete_formation" /\ last.log = "PROGRESS")) =>
          get_formation_count = Cardinality(DOMAIN pre)

\* C26 witness: an update has run, after members were added and a target
\* set, with one formation live and another one deleted.
CountedAfterDelete ==
    /\ last.op = "update_formations"
    /\ Requested # {}
    /\ Len(created) = 2
    /\ deleted = 1
    /\ get_formation_count = 1

\* the target part of a Formation
TargetPart(f) == <<f.has_target, f.target_pos, f.target_dir>>

\* C27: a formation stays in the registry until a delete_formation on its
\* id succeeds, and no call resets it: its topology and spacing never
\* change, its members change only by add_agent_to_formation and
\* remove_agent_from_formation, its leader only by set_formation_leader and
\* remove_agent_from_formation, its target only by set_formation_target; in
\* particular init_crowd, init_by_obj, build_navmesh, add_agent,
\* remove_agent and update_formations leave every formation as it was, and
\* a formation whose last member was removed stays.
FormationKeptUntilDeleted ==
    /\ DOMAIN pre \ DOMAIN formations \subseteq
          (IF last.op = "delete_formation" /\ last.log = "PROGRESS"
           THEN {LastFormation} ELSE {})
    /\ \A i \in DOMAIN pre \cap DOMAIN formations :
          /\ formations[i].id = pre[i].id
          /\ formations[i].type = pre[i].type
          /\ formations[i].spacing = pre[i].spacing
          /\ formations[i].agent_indices # pre[i].agent_indices =>
                last.op \in {"add_agent_to_formation", "remove_agent_from_formation"}
          /\ formations[i].leader_idx # pre[i].leader_idx =>
                last.op \in {"set_formation_leader", "remove_agent_from_formation"}
          /\ TargetPart(formations[i]) # TargetPart(pre[i]) =>
                last.op = "set_formation_target"

\* C27 witness: the geometry has been loaded again, which cleared the
\* crowd, with two formations in the registry, one with members, a leader
\* and a target, the other emptied of its members.
KeptThroughClear ==
    /\ last.op = "init_by_obj"
    /\ calls # <<>>
    /\ ~is_crowd_init
    /\ formations = pre
    /\ \E i, j \in DOMAIN formations :
          /\ formations[i].has_target
          /\ formations[i].agent_indices # <<>>
          /\ formations[i].leader_idx # -1
          /\ j # i
          /\ formations[j].agent_indices = <<>>

\* C28: set_formation_target with an unknown formation id, or with a
\* position or a heading of fewer than 3 components, is reported as an error
\* and changes nothing: every formation keeps has_target and its pose, and
\* no formation is created.
FailedTargetChangesNothing ==
    (/\ last.op = "set_formation_target"
     /\ \/ LastFormation \notin DOMAIN pre
        \/ Len(last.vecs[1]) < 3
        \/ Len(last.vecs[2]) < 3) =>
        (last.log = "ERROR" /\ formations = pre)

\* C28 witness: a heading of two components has been refused for a live
\* formation with members and without target, which stays without target.
ShortHeadingRefused ==
    /\ last.op = "set_formation_target"
    /\ last.log = "ERROR"
    /\ Len(last.vecs[1]) >= 3
    /\ Len(last.vecs[2]) < 3
    /\ LastFormation \in DOMAIN formations
    /\ formations[LastFormation].agent_indices # <<>>
    /\ ~formations[LastFormation].has_target

\* the latest call was add_agent_to_formation, on a live formation, for an
\* agent that was a member of other formations only
AddedFromElsewhere ==
    /\ last.op = "add_agent_to_formation"
    /\ LastFormation \in DOMAIN pre
    /\ HoldersBefore(LastAgent) # {}
    /\ LastFormation \notin HoldersBefore(LastAgent)

\* the agent of the latest call has been appended to the formation of the
\* call, every other formation being as it was
AppendedToLast ==
    /\ DOMAIN formations = DOMAIN pre
    /\ formations[LastFormation] =
          [pre[LastFormation] EXCEPT !.agent_indices = Append(@, LastAgent)]
    /\ \A j \in DOMAIN pre \ {LastFormation} : formations[j] = pre[j]

LateralPairs(f) ==
    LET pairs == CASE f.type = 0 -> {p \in LiveSlots(f) \X LiveSlots(f) : p[1] < p[2]}
                   [] f.type = 2 -> {<<1, 2>>}
                   [] f.type = 3 -> {<<0, 1>>}
                   [] OTHER -> {}
    IN {p \in pairs : /\ p[1] \in LiveSlots(f) /\ p[2] \in LiveSlots(f)
                      /\ f.agent_indices[p[1] + 1] \in Requested
                      /\ f.agent_indices[p[2] + 1] \in Requested}

\* the stored heading of f has no ground-plane component
HeadingVertical(f) == f.target_dir[1] = 0 /\ f.target_dir[3] = 0

\* C30: when the stored heading has no ground-plane component, a non-zero
\* default right vector is used, so members of a Line, Wedge or Box whose
\* lateral offsets differ are sent to different points.
LateralKeptOnVerticalHeading ==
    \A t \in {0, 2, 3} : \A id \in LaidOut(t) :
        HeadingVertical(pre[id]) =>
            \A p \in LateralPairs(pre[id]) :
                TargetOf(pre[id].agent_indices[p[1] + 1]) #
                    TargetOf(pre[id].agent_indices[p[2] + 1])

\* C31: when the caller runs the other operations between update_formations
\* calls only, no update_formations call reads a member slot past the end of
\* the members sequence or a formation that has been erased; such a read is
\* made only by a call that other operations have interleaved with.
TornOnlyWhenInterleaved == tick.torn # "NONE" => ~serial

\* C31 witness: remove_agent_from_formation has run while update_formations
\* was in the member loop of a formation, and the loop has read a slot past
\* the end of the shrunk sequence.
SlotPastEndRead ==
    /\ ~serial
    /\ tick.torn = "past_end"
    /\ last.op = "remove_agent_from_formation"
    /\ last.ret = 1

\* the latest call was remove_agent_from_formation for an agent that was a
\* member of several formations
RemovedFromSeveral ==
    /\ last.op = "remove_agent_from_formation"
    /\ ~crashed
    /\ Cardinality(HoldersBefore(LastAgent)) >= 2

\* the formation of the smallest id among those that held agent_idx before
\* the latest call
FirstBefore(agent_idx) ==
    CHOOSE m \in HoldersBefore(agent_idx) : \A j \in HoldersBefore(agent_idx) : m <= j

\* the latest call returned true, took its agent out of the formation of the
\* smallest id that held it, cleared the leader of that formation if it was
\* the agent, and left every other formation as it was
OnlyFirstLost ==
    LET m == FirstBefore(LastAgent)
        k == CHOOSE n \in 1 .. Len(pre[m].agent_indices) :
                /\ pre[m].agent_indices[n] = LastAgent
                /\ \A q \in 1 .. (n - 1) : pre[m].agent_indices[q] # LastAgent
    IN /\ last.ret = 1
       /\ DOMAIN formations = DOMAIN pre
       /\ formations[m] =
             [pre[m] EXCEPT !.agent_indices = Without(@, k),
                            !.leader_idx = IF @ = LastAgent THEN -1 ELSE @]
       /\ \A j \in DOMAIN pre \ {m} : formations[j] = pre[j]
       /\ Holders(LastAgent) = HoldersBefore(LastAgent) \ {m}

\* C32 as stated: when an agent is a member of several formations, one
\* remove_agent_from_formation call removes it from exactly one of them, the
\* live formation of the smallest id that contains it, clears only that
\* formation's leader, and leaves it a member of the others.
RemoveTakesFirstOfSeveral == RemovedFromSeveral => OnlyFirstLost

\* C32: while the crowd is initialised, one remove_agent_from_formation call
\* for an agent of several formations removes it from the live formation of
\* the smallest id that contains it and from no other, clears only that
\* formation's leader, and leaves one holder fewer; while the crowd is not
\* initialised the call returns false and removes it from none.
RemoveTakesFirstOfSeveralInCrowd ==
    RemovedFromSeveral =>
        IF is_crowd_init THEN OnlyFirstLost
        ELSE last.ret = 0 /\ formations = pre

\* C32 witness: an agent that led two formations has been removed from the
\* one of the smaller id and still is a member and the leader of the other.
RemovedFromOneOfTwoLed ==
    /\ RemovedFromSeveral
    /\ last.ret = 1
    /\ pre[FirstBefore(LastAgent)].leader_idx = LastAgent
    /\ \E j \in Holders(LastAgent) : formations[j].leader_idx = LastAgent

\* an update_formations call has returned and nothing has run since
Completed ==
    /\ last.op = "update_formations"
    /\ tick.pos = "idle"
    /\ tick.torn = "NONE"
    /\ ~crashed
    /\ is_crowd_init

\* <<id, slot>> of every member of a targeted formation that the Movement
\* Engine reports as existing
ServedSlots ==
    UNION {{<<id, i>> : i \in LiveSlots(formations[id])} :
             id \in {j \in DOMAIN formations : Targeted(formations[j])}}

\* the place of p among the served slots, by id and then by slot
Rank(p) ==
    1 + Cardinality({q \in ServedSlots :
                       q[1] < p[1] \/ (q[1] = p[1] /\ q[2] < p[2])})

\* the positions in calls of the requests for agent_idx
RequestsFor(agent_idx) ==
    {k \in 1 .. Len(calls) :
        calls[k][1] = "requestMoveTarget" /\ calls[k][2] = agent_idx}

\* the targeted formations that hold agent_idx
TargetedHolders(agent_idx) ==
    {j \in Holders(agent_idx) : Targeted(formations[j])}

\* the request update_formations makes for slot i of formation id
RequestOf(id, i) ==
    <<"requestMoveTarget", formations[id].agent_indices[i + 1],
      SlotTarget(formations[id], i, RightOf(formations[id].target_dir))>>

\* C33: in one update_formations call the requests are issued formation by
\* formation in ascending id order and member by member in slot order; an
\* existing agent that is a member of k targeted formations receives k
\* requests, the last of them computed from the formation of the largest id.
UpdateInIdThenSlotOrder ==
    Completed =>
        /\ Len(calls) = Cardinality(ServedSlots)
        /\ \A p \in ServedSlots : calls[Rank(p)] = RequestOf(p[1], p[2])
        /\ \A a \in 0 .. (getAgentCount(crowd) - 1) :
              AgentExists(a) =>
                /\ Cardinality(RequestsFor(a)) = Cardinality(TargetedHolders(a))
                /\ TargetedHolders(a) # {} =>
                      LET top == CHOOSE m \in TargetedHolders(a) :
                                    \A j \in TargetedHolders(a) : m >= j
                          end == CHOOSE k \in RequestsFor(a) :
                                    \A n \in RequestsFor(a) : k >= n
                      IN calls[end] =
                           RequestOf(top, FindFirst(formations[top].agent_indices, a) - 1)

\* C33 witness: an update_formations call has served two formations of two
\* members each, and an agent that is a member of both has received two
\* different targets.
ServedInTwoFormations ==
    /\ Completed
    /\ Len(calls) = 4
    /\ \E a \in 0 .. (MaxTickAgents - 1) :
          /\ Cardinality(TargetedHolders(a)) = 2
          /\ \E k \in RequestsFor(a), n \in RequestsFor(a) : calls[k][3] # calls[n][3]

\* the crowd with every agent slot in use
FullCrowd == [crowd EXCEPT !.active = 0 .. (getAgentCount(crowd) - 1)]

\* the requests an update_formations call would make if every stored member
\* existed in the Movement Engine
StoredRequests == FormationRequests(DOMAIN formations, FullCrowd)

\* those of them that are for agents that exist
AliveRequests ==
    LET Alive(c) == agent_active(crowd, c[2])
    IN SelectSeq(StoredRequests, Alive)

\* C34: a member that no longer exists in the Movement Engine keeps its
\* slot: update_formations sends the members that exist the targets it
\* would send them if every stored member existed, and remove_agent leaves
\* the stored members, from which the group size and the slot indices are
\* taken, as they were.
StaleMemberKeepsSlot ==
    /\ (last.op = "update_formations" /\ ~crashed /\ is_crowd_init) =>
            calls = AliveRequests
    /\ last.op = "remove_agent" => formations = pre

\* C34 witness: update_formations has served a formation of three stored
\* members whose first no longer exists; the other two have been sent the
\* targets of slots 1 and 2 of a group of three.
ServedBesideStale ==
    /\ last.op = "update_formations"
    /\ 0 \in DOMAIN formations
    /\ Len(formations[0].agent_indices) = 3
    /\ ~AgentExists(formations[0].agent_indices[1])
    /\ Len(calls) = 2
    /\ calls = SubSeq(StoredRequests, 2, 3)

\* C35: membership is keyed by crowd index only: remove_agent leaves every
\* formation as it was, and when add_agent has returned an index that a
\* targeted formation stores, the update_formations call that follows sends
\* the agent of that index the target of the stored slot.
MembershipByIndexOnly ==
    [][/\ (last'.op = "remove_agent") => UNCHANGED formations
       /\ (/\ last.op = "add_agent"
           /\ last.ret >= 0
           /\ last'.op = "update_formations"
           /\ ~crashed') =>
              \A i \in DOMAIN formations :
                  (/\ Targeted(formations[i])
                   /\ Contains(formations[i].agent_indices, last.ret)) =>
                      \E k \in 1 .. Len(calls') :
                          calls'[k] =
                            <<"requestMoveTarget", last.ret,
                              SlotTarget(formations[i],
                                         FindFirst(formations[i].agent_indices, last.ret) - 1,
                                         RightOf(formations[i].target_dir))>>]_vars

\* C35 witness: add_agent has just returned an index that a targeted
\* formation stores as a member, so the agent of that index is one
\* add_agent_to_formation has not been called for.
NewAgentOnStoredIndex ==
    /\ last.op = "add_agent"
    /\ last.ret >= 0
    /\ \E i \in DOMAIN formations :
          /\ Targeted(formations[i])
          /\ Contains(formations[i].agent_indices, last.ret)
          /\ formations[i].leader_idx = last.ret

\* C36: whenever is_crowd_init is true the crowd object exists, after any
\* sequence of init_crowd calls, and no operation has dereferenced a null
\* crowd.
CrowdExistsWhileInit ==
    /\ is_crowd_init => crowd # NULL
    /\ ~crashed

\* C37: while the crowd is not initialised create_formation returns -1,
\* adds no formation and consumes no id (the ids handed out are those of the
\* successful calls); add_agent_to_formation and remove_agent_from_formation
\* return false and change no membership; update_formations makes no
\* request; delete_formation, set_formation_leader and set_formation_target
\* take effect as they do with a crowd.
WithoutCrowd ==
    /\ next_formation_id = Len(created)
    /\ (~is_crowd_init /\ ~crashed) =>
        /\ last.op = "create_formation" => (last.ret = -1 /\ formations = pre)
        /\ last.op \in {"add_agent_to_formation", "remove_agent_from_formation"} =>
              (last.ret = 0 /\ formations = pre)
        /\ last.op = "update_formations" => calls = <<>>
        /\ (last.op = "delete_formation" /\ LastFormation \in DOMAIN pre) =>
              /\ DOMAIN formations = DOMAIN pre \ {LastFormation}
              /\ \A j \in DOMAIN formations : formations[j] = pre[j]
        /\ (/\ last.op = "set_formation_leader"
            /\ LastFormation \in DOMAIN pre
            /\ LastAgent \in ElemsOf(pre[LastFormation].agent_indices)) =>
              formations = [pre EXCEPT ![LastFormation].leader_idx = LastAgent]
        /\ (/\ last.op = "set_formation_target"
            /\ LastFormation \in DOMAIN pre
            /\ Len(last.vecs[1]) >= 3
            /\ Len(last.vecs[2]) >= 3) =>
              /\ formations[LastFormation].has_target
              /\ formations[LastFormation].target_pos = SubSeq(last.vecs[1], 1, 3)
              /\ \A j \in DOMAIN pre \ {LastFormation} : formations[j] = pre[j]

\* C37 witness: without a crowd, remove_agent_from_formation has returned
\* false for an agent that is a stored member and the leader of a formation.
StoredMemberNotRemoved ==
    /\ ~is_crowd_init
    /\ last.op = "remove_agent_from_formation"
    /\ last.ret = 0
    /\ \E j \in Holders(LastAgent) : formations[j].leader_idx = LastAgent

\* the operations that take a formation id and are not create_formation
Lookups ==
    {"get_formation_agents", "get_formation_info", "set_formation_leader",
     "set_formation_target", "add_agent_to_formation", "delete_formation"}

\* C38: only create_formation adds an entry to the registry: an operation
\* called with an unknown formation id leaves the registry as it was
\* (get_formation_agents returning an empty sequence and get_formation_info
\* an empty map), an id enters the registry by create_formation alone, and
\* the live ids are ids create_formation returned, as many as were created
\* and not deleted.
OnlyCreateInserts ==
    /\ (last.op \in Lookups /\ LastFormation \notin DOMAIN pre) =>
          /\ formations = pre
          /\ last.op = "get_formation_agents" => last.vecs = <<<<>>>>
          /\ last.op = "get_formation_info" => last.vecs = <<>>
    /\ DOMAIN formations \ DOMAIN pre # {} => last.op = "create_formation"
    /\ DOMAIN formations \subseteq ElemsOf(created)
    /\ Cardinality(DOMAIN formations) = Len(created) - deleted

\* C38 witness: get_formation_info has been called with the id of a deleted
\* formation while another formation is live, and has returned the empty map.
DeletedIdLookedUp ==
    /\ last.op = "get_formation_info"
    /\ LastFormation \in ElemsOf(created)
    /\ LastFormation \notin DOMAIN formations
    /\ DOMAIN formations # {}
    /\ last.vecs = <<>>

\* the targets update_formations computes for slots i and j of f differ
SlotsApart(f) ==
    \A i \in 0 .. (Len(f.agent_indices) - 1), j \in 0 .. (Len(f.agent_indices) - 1) :
        i # j => SlotTarget(f, i, RightOf(f.target_dir)) #
                 SlotTarget(f, j, RightOf(f.target_dir))

\* C39: for a Line, Column, Wedge or Box of spacing > 0 whose stored heading
\* lies in the ground plane, the targets of distinct slots differ and no two
\* members are sent to the same point in one update_formations call; for a
\* formation whose type is outside 0..4 every member is sent to the target
\* position.
DistinctSlotsDistinctTargets ==
    /\ \A t \in 0 .. 3 : \A id \in LaidOut(t) :
          (pre[id].spacing > 0 /\ pre[id].target_dir[2] = 0) =>
              /\ SlotsApart(pre[id])
              /\ \A i \in LiveSlots(pre[id]), j \in LiveSlots(pre[id]) :
                    i # j => TargetOf(pre[id].agent_indices[i + 1]) #
                             TargetOf(pre[id].agent_indices[j + 1])
    /\ \A id \in DOMAIN pre :
          (/\ last.op = "update_formations" /\ ~crashed /\ is_crowd_init
           /\ Targeted(pre[id]) /\ pre[id].type \notin 0 .. 4) =>
              /\ \A i \in LiveSlots(pre[id]) : pre[id].agent_indices[i + 1] \in Requested
              /\ \A k \in 1 .. Len(calls) : calls[k][3] = pre[id].target_pos

\* C39 witness: the six members of a Box on a diagonal heading have been
\* sent to six different points.
SixApartInBox ==
    /\ LaidOut(3) = {0}
    /\ Len(pre[0].agent_indices) = 6
    /\ pre[0].target_dir[1] # 0
    /\ pre[0].target_dir[3] # 0
    /\ pre[0].target_dir[2] = 0
    /\ Cardinality({calls[k][3] : k \in 1 .. Len(calls)}) = 6
====
